---- MODULE Spec2Model ----
(***************************************************************************)
(* Model of the journal-recommender synchronisation scripts:               *)
(*   scripts/import_asm_journals.py            (ASM importer)              *)
(*   scripts/data-processing/scrape_bmj_journals.py (BMJ scraper)          *)
(*   scripts/data-processing/import_from_json.py    (JSON restore)         *)
(*   scripts/export_db_to_json.py              (JSON export)               *)
(* against one PostgreSQL store reached through a psycopg2 connection,     *)
(* and of the file-to-file scripts                                         *)
(*   scripts/clean_scope_data.py               (scope extractor, cleaner)  *)
(*   scripts/create_database.py                (downstream JSON)           *)
(*   scripts/data-processing/scrape_bmj_scopes.py   (parse_csv)            *)
(*                                                                         *)
(* Values.  A JSON / Python / SQL value is a record [k, s, n]:             *)
(*   k = "null"  None / SQL NULL                                           *)
(*   k = "str"   a string, s is its sequence of characters                 *)
(*   k = "int"   an integer n                                              *)
(*   k = "float" a float, n is the value in hundredths (2.5 is n = 250)    *)
(*   k = "obj"   a non-empty JSON object (a dict where a scalar is meant)  *)
(***************************************************************************)
EXTENDS Integers, Sequences, FiniteSets, TLC

\* ------------------------------------------------------------------ bounds
MaxSteps == 3
MaxFile == 3
MaxTokens == 4
MaxSentences == 6

\* ------------------------------------------------------------------ values
JNull == [k |-> "null", s |-> <<>>, n |-> 0]
JStr(chars) == [k |-> "str", s |-> chars, n |-> 0]
JInt(i) == [k |-> "int", s |-> <<>>, n |-> i]
JFloat(h) == [k |-> "float", s |-> <<>>, n |-> h]
JObj == [k |-> "obj", s |-> <<>>, n |-> 0]

\* Python truthiness, as used by `if not val` / `if scope_text`.
Truthy(v) ==
  CASE v.k = "null" -> FALSE
    [] v.k = "str" -> v.s # <<>>
    [] v.k = "int" -> v.n # 0
    [] v.k = "float" -> v.n # 0
    [] OTHER -> TRUE

\* A value psycopg2 can adapt to an SQL literal (a dict cannot be adapted).
Adaptable(v) == v.k # "obj"

\* ----------------------------------------------------------------- strings
IsSpace(c) == c \in {" ", "\n", "\t"}

RECURSIVE LStrip(_)
LStrip(s) == IF s # <<>> /\ IsSpace(Head(s)) THEN LStrip(Tail(s)) ELSE s

RECURSIVE RStrip(_)
RStrip(s) ==
  IF s # <<>> /\ IsSpace(s[Len(s)]) THEN RStrip(SubSeq(s, 1, Len(s) - 1)) ELSE s

\* str.strip()
Strip(s) == RStrip(LStrip(s))

\* str.split(sep) for a one-character separator: always at least one part.
RECURSIVE SplitAcc(_, _, _)
SplitAcc(s, sep, cur) ==
  IF s = <<>> THEN <<cur>>
  ELSE IF Head(s) = sep THEN <<cur>> \o SplitAcc(Tail(s), sep, <<>>)
  ELSE SplitAcc(Tail(s), sep, Append(cur, Head(s)))

Split(s, sep) == SplitAcc(s, sep, <<>>)

\* [p.strip() for p in parts], then the non-empty ones, in order.
RECURSIVE StripNonEmpty(_)
StripNonEmpty(parts) ==
  IF parts = <<>> THEN <<>>
  ELSE LET p == Strip(Head(parts))
       IN  IF p = <<>> THEN StripNonEmpty(Tail(parts))
           ELSE <<p>> \o StripNonEmpty(Tail(parts))

Range(f) == {f[i] : i \in DOMAIN f}

Max(set) == CHOOSE m \in set : \A o \in set : o <= m

\* ----------------------------------------------------------- field parsers
\* parse_issn: the field must be a string (or falsy); a truthy non-string
\* has no .split and raises.
ParseRaises(v) == Truthy(v) /\ v.k # "str"

parse_issn(v) == IF ~Truthy(v) THEN <<>> ELSE StripNonEmpty(Split(v.s, ","))

parse_areas(v) == IF ~Truthy(v) THEN <<>> ELSE StripNonEmpty(Split(v.s, ";"))

IsQuartileTag(c) == c \in {"1", "2", "3", "4"}

\* re.match(r'^(.+?)\s*\(([Q][1-4])\)$', part): the last four characters are
\* "(Qn)", at least one character precedes them and none of the characters
\* taken by `.+?` is a newline.
RECURSIVE NoNewline(_)
NoNewline(s) == s = <<>> \/ (Head(s) # "\n" /\ NoNewline(Tail(s)))

CategoryMatches(part) ==
  /\ Len(part) >= 5
  /\ part[Len(part)] = ")"
  /\ IsQuartileTag(part[Len(part) - 1])
  /\ part[Len(part) - 2] = "Q"
  /\ part[Len(part) - 3] = "("
  /\ NoNewline(RStrip(SubSeq(part, 1, Len(part) - 4)))

parseCategoryEntry(part) ==
  IF CategoryMatches(part)
  THEN [name |-> Strip(SubSeq(part, 1, Len(part) - 4)),
        quartile |-> JStr(<<"Q", part[Len(part) - 1]>>)]
  ELSE [name |-> part, quartile |-> JNull]

RECURSIVE MapCategoryEntries(_)
MapCategoryEntries(parts) ==
  IF parts = <<>> THEN <<>>
  ELSE <<parseCategoryEntry(Head(parts))>> \o MapCategoryEntries(Tail(parts))

parse_categories(v) ==
  IF ~Truthy(v) THEN <<>>
  ELSE MapCategoryEntries(StripNonEmpty(Split(v.s, ";")))

IsDigit(c) == c \in {"0", "1", "2", "3", "4", "5", "6", "7", "8", "9"}

DigitVal(c) ==
  CASE c = "0" -> 0 [] c = "1" -> 1 [] c = "2" -> 2 [] c = "3" -> 3
    [] c = "4" -> 4 [] c = "5" -> 5 [] c = "6" -> 6 [] c = "7" -> 7
    [] c = "8" -> 8 [] OTHER -> 9

RECURSIVE AllDigits(_)
AllDigits(s) == s = <<>> \/ (IsDigit(Head(s)) /\ AllDigits(Tail(s)))

RECURSIVE DigitsVal(_)
DigitsVal(s) ==
  IF s = <<>> THEN 0 ELSE DigitsVal(SubSeq(s, 1, Len(s) - 1)) * 10 + DigitVal(s[Len(s)])

HasSign(s) == s # <<>> /\ Head(s) \in {"+", "-"}
Unsigned(s) == IF HasSign(s) THEN Tail(s) ELSE s
SignOf(s) == IF s # <<>> /\ Head(s) = "-" THEN -1 ELSE 1

\* int(str): surrounding whitespace, an optional sign, then digits only.
IntSyntax(s) ==
  LET u == Unsigned(Strip(s)) IN u # <<>> /\ AllDigits(u)

IntOfStr(s) == SignOf(Strip(s)) * DigitsVal(Unsigned(Strip(s)))

\* float(str): surrounding whitespace, an optional sign, digits with at most
\* one '.', at least one digit.  (The alphabet of the inputs has no exponent,
\* underscore, inf or nan spelling.)  The value is kept in hundredths, the
\* inputs carry at most two fractional digits.
DotPos(s) == IF \E i \in 1..Len(s) : s[i] = "."
             THEN CHOOSE i \in 1..Len(s) : s[i] = "." /\ \A k \in 1..(i - 1) : s[k] # "."
             ELSE 0

FloatSyntax(s) ==
  LET u == Unsigned(Strip(s))
      d == DotPos(u)
  IN  IF d = 0 THEN u # <<>> /\ AllDigits(u)
      ELSE LET ip == SubSeq(u, 1, d - 1)
               fp == SubSeq(u, d + 1, Len(u))
           IN  /\ AllDigits(ip) /\ AllDigits(fp)
               /\ Len(ip) + Len(fp) >= 1

FloatOfStr(s) ==
  LET u == Unsigned(Strip(s))
      d == DotPos(u)
      ip == IF d = 0 THEN u ELSE SubSeq(u, 1, d - 1)
      fp == IF d = 0 THEN <<>> ELSE SubSeq(u, d + 1, Len(u))
      frac == IF Len(fp) = 0 THEN 0
              ELSE IF Len(fp) = 1 THEN DigitVal(fp[1]) * 10
              ELSE DigitVal(fp[1]) * 10 + DigitVal(fp[2])
  IN  SignOf(Strip(s)) * (DigitsVal(ip) * 100 + frac)

\* Truncation toward zero of a value in hundredths: int(float).
TruncHundredths(h) == IF h >= 0 THEN h \div 100 ELSE -((-h) \div 100)

safe_float(val) ==
  IF ~Truthy(val) THEN JNull
  ELSE CASE val.k = "str" ->
              IF FloatSyntax(val.s) THEN JFloat(FloatOfStr(val.s)) ELSE JNull
         [] val.k = "int" -> JFloat(val.n * 100)
         [] val.k = "float" -> val
         [] OTHER -> JNull

safe_int(val) ==
  IF ~Truthy(val) THEN JNull
  ELSE CASE val.k = "str" ->
              IF IntSyntax(val.s) THEN JInt(IntOfStr(val.s)) ELSE JNull
         [] val.k = "int" -> val
         [] val.k = "float" -> JInt(TruncHundredths(val.n))
         [] OTHER -> JNull

\* ------------------------------------------------------------------- store
\* A table is the sequence of its rows in heap (insertion) order, so that a
\* missing uniqueness check shows as a repeated row.
EmptyTables ==
  [journals |-> <<>>, journal_scopes |-> <<>>, journal_metrics |-> <<>>,
   journal_issn |-> <<>>, categories |-> <<>>, subject_areas |-> <<>>,
   journal_categories |-> <<>>, journal_areas |-> <<>>]

\* Last value handed out by each SERIAL sequence.  Sequences are not
\* transactional: a rollback does not give a value back.
EmptySeqs == [journals |-> 0, categories |-> 0, subject_areas |-> 0]

Some(t, P(_)) == \E i \in DOMAIN t : P(t[i])

First(t, P(_)) == t[CHOOSE i \in DOMAIN t : P(t[i]) /\ \A k \in 1..(i - 1) : ~P(t[k])]

UpdateWhere(t, P(_), F(_)) == [i \in DOMAIN t |-> IF P(t[i]) THEN F(t[i]) ELSE t[i]]

\* The result of a sequence of statements on a connection:
\*   st  the tables as the open transaction sees them
\*   sq  the sequences
\*   err "" while every statement succeeded, else the kind of the first
\*       exception: "py" raised on the client before the statement was sent,
\*       "db" raised by the store (the transaction is then aborted)
\*   at  the statement that raised
Ok(st, sq) == [st |-> st, sq |-> sq, err |-> "", at |-> ""]
Raise(r, kind, where) == [st |-> r.st, sq |-> r.sq, err |-> kind, at |-> where]

\* ------------------------------------------------- import_asm_journals.main
AsmPublisher == JStr(<<"ASM">>)

\* INSERT INTO journals ... ON CONFLICT (source_id) DO UPDATE ... RETURNING id
\* The default nextval() of the id column is evaluated before the conflict is
\* detected, so the sequence advances on both branches.
AsmJournalRow(id, j) ==
  [id |-> id, source_id |-> j.source_id, title |-> j.title,
   publisher |-> AsmPublisher, country |-> j.country,
   open_access |-> j.open_access, coverage |-> j.coverage,
   scimago_rank |-> safe_int(j.rank)]

\* Variant: a plain INSERT, without the ON CONFLICT (source_id) clause.
AsmUpsertJournal_NoConflictClause(r, j) ==
  LET nid == r.sq.journals + 1
  IN  Ok([r.st EXCEPT !.journals = Append(@, AsmJournalRow(nid, j))],
         [r.sq EXCEPT !.journals = nid])

AsmUpsertJournal(r, j) ==
  LET same(row) == row.source_id = j.source_id
      merge(row) == AsmJournalRow(row.id, j)
      nid == r.sq.journals + 1
      sq2 == [r.sq EXCEPT !.journals = nid]
  IN  IF Some(r.st.journals, same)
      THEN Ok([r.st EXCEPT !.journals = UpdateWhere(@, same, merge)], sq2)
      ELSE Ok([r.st EXCEPT !.journals = Append(@, AsmJournalRow(nid, j))], sq2)

JournalIdOf(st, sid) == LET same(row) == row.source_id = sid IN First(st.journals, same).id

\* A scope upsert that appends the new text to the stored one.
UpsertScope_Concat(r, jid, text) ==
  LET same(row) == row.journal_id = jid
      merge(row) == [row EXCEPT !.scope_text = JStr(@.s \o text.s)]
  IN  IF Some(r.st.journal_scopes, same)
      THEN Ok([r.st EXCEPT !.journal_scopes = UpdateWhere(@, same, merge)], r.sq)
      ELSE Ok([r.st EXCEPT !.journal_scopes =
                 Append(@, [journal_id |-> jid, scope_text |-> text])], r.sq)

\* INSERT INTO journal_scopes ... ON CONFLICT (journal_id) DO UPDATE SET scope_text
UpsertScope(r, jid, text) ==
  LET same(row) == row.journal_id = jid
      merge(row) == [row EXCEPT !.scope_text = text]
  IN  IF Some(r.st.journal_scopes, same)
      THEN Ok([r.st EXCEPT !.journal_scopes = UpdateWhere(@, same, merge)], r.sq)
      ELSE Ok([r.st EXCEPT !.journal_scopes =
                 Append(@, [journal_id |-> jid, scope_text |-> text])], r.sq)

MetricFields ==
  {"sjr", "sjr_quartile", "h_index", "total_docs_2024", "total_docs_3years",
   "citations_per_doc", "total_citations_3years"}

AsmMetricsRow(jid, j) ==
  [journal_id |-> jid,
   sjr |-> safe_float(j.sjr),
   sjr_quartile |-> j.sjr_quartile,
   h_index |-> safe_int(j.h_index),
   total_docs_2024 |-> safe_int(j.total_docs_2024),
   total_docs_3years |-> safe_int(j.total_docs_3years),
   citations_per_doc |-> safe_float(j.citations_per_doc),
   total_citations_3years |-> safe_int(j.total_citations_3years)]

\* ON CONFLICT (journal_id) DO UPDATE SET <every column> = EXCLUDED.<column>
AsmMergeMetrics(old, new) == new

AsmUpsertMetrics(r, jid, j) ==
  LET same(row) == row.journal_id = jid
      merge(row) == AsmMergeMetrics(row, AsmMetricsRow(jid, j))
  IN  IF Some(r.st.journal_metrics, same)
      THEN Ok([r.st EXCEPT !.journal_metrics = UpdateWhere(@, same, merge)], r.sq)
      ELSE Ok([r.st EXCEPT !.journal_metrics = Append(@, AsmMetricsRow(jid, j))], r.sq)

\* Variant: the ISSN insert without its ON CONFLICT DO NOTHING clause.
InsertIssn_NoConflictClause(st, jid, issn) ==
  [st EXCEPT !.journal_issn = Append(@, [journal_id |-> jid, issn |-> issn])]

\* INSERT INTO journal_issn ... ON CONFLICT (journal_id, issn) DO NOTHING
InsertIssn(st, jid, issn) ==
  LET same(row) == row.journal_id = jid /\ row.issn = issn
  IN  IF Some(st.journal_issn, same) THEN st
      ELSE [st EXCEPT !.journal_issn = Append(@, [journal_id |-> jid, issn |-> issn])]

RECURSIVE InsertIssns(_, _, _)
InsertIssns(st, jid, issns) ==
  IF issns = <<>> THEN st
  ELSE InsertIssns(InsertIssn(st, jid, Head(issns)), jid, Tail(issns))

\* Variant: the link insert with ON CONFLICT DO NOTHING, keeping the old
\* quartile.
AsmLinkCategory_KeepQuartile(r, jid, cat) ==
  LET named(row) == row.name = cat.name
      nid == r.sq.categories + 1
      sq2 == [r.sq EXCEPT !.categories = nid]
      st2 == IF Some(r.st.categories, named) THEN r.st
             ELSE [r.st EXCEPT !.categories = Append(@, [id |-> nid, name |-> cat.name])]
      cid == First(st2.categories, named).id
      same(row) == row.journal_id = jid /\ row.category_id = cid
  IN  IF Some(st2.journal_categories, same) THEN Ok(st2, sq2)
      ELSE Ok([st2 EXCEPT !.journal_categories =
                 Append(@, [journal_id |-> jid, category_id |-> cid,
                            quartile |-> cat.quartile])], sq2)

\* INSERT INTO categories (name) ... ON CONFLICT (name) DO UPDATE SET name
\* RETURNING id, then the link upsert on (journal_id, category_id).
AsmLinkCategory(r, jid, cat) ==
  LET named(row) == row.name = cat.name
      nid == r.sq.categories + 1
      sq2 == [r.sq EXCEPT !.categories = nid]
      st2 == IF Some(r.st.categories, named) THEN r.st
             ELSE [r.st EXCEPT !.categories = Append(@, [id |-> nid, name |-> cat.name])]
      cid == First(st2.categories, named).id
      same(row) == row.journal_id = jid /\ row.category_id = cid
      merge(row) == [row EXCEPT !.quartile = cat.quartile]
  IN  IF Some(st2.journal_categories, same)
      THEN Ok([st2 EXCEPT !.journal_categories = UpdateWhere(@, same, merge)], sq2)
      ELSE Ok([st2 EXCEPT !.journal_categories =
                 Append(@, [journal_id |-> jid, category_id |-> cid,
                            quartile |-> cat.quartile])], sq2)

RECURSIVE AsmLinkCategories(_, _, _)
AsmLinkCategories(r, jid, cats) ==
  IF cats = <<>> THEN r
  ELSE AsmLinkCategories(AsmLinkCategory(r, jid, Head(cats)), jid, Tail(cats))

\* INSERT INTO subject_areas (name) ... RETURNING id, then the link insert
\* ON CONFLICT (journal_id, area_id) DO NOTHING.
AsmLinkArea(r, jid, name) ==
  LET named(row) == row.name = name
      nid == r.sq.subject_areas + 1
      sq2 == [r.sq EXCEPT !.subject_areas = nid]
      st2 == IF Some(r.st.subject_areas, named) THEN r.st
             ELSE [r.st EXCEPT !.subject_areas = Append(@, [id |-> nid, name |-> name])]
      aid == First(st2.subject_areas, named).id
      same(row) == row.journal_id = jid /\ row.area_id = aid
  IN  IF Some(st2.journal_areas, same) THEN Ok(st2, sq2)
      ELSE Ok([st2 EXCEPT !.journal_areas =
                 Append(@, [journal_id |-> jid, area_id |-> aid])], sq2)

RECURSIVE AsmLinkAreas(_, _, _)
AsmLinkAreas(r, jid, names) ==
  IF names = <<>> THEN r
  ELSE AsmLinkAreas(AsmLinkArea(r, jid, Head(names)), jid, Tail(names))

\* The statements of the try block for one record (lines 114-214), each
\* skipped once an earlier one has raised; the first exception keeps the
\* writes made so far in the open transaction.
AsmStageJournal(r, j) ==
  IF \E f \in {"source_id", "title", "country", "coverage"} : ~Adaptable(j[f])
  THEN Raise(r, "py", "journals")
  ELSE AsmUpsertJournal(r, j)

AsmStageScope(r, j) ==
  IF r.err # "" \/ ~Truthy(j.scope) THEN r
  ELSE IF ~Adaptable(j.scope) THEN Raise(r, "py", "journal_scopes")
  ELSE UpsertScope(r, JournalIdOf(r.st, j.source_id), j.scope)

AsmStageMetrics(r, j) ==
  IF r.err # "" THEN r
  ELSE IF ~Adaptable(j.sjr_quartile) THEN Raise(r, "py", "journal_metrics")
  ELSE AsmUpsertMetrics(r, JournalIdOf(r.st, j.source_id), j)

AsmStageIssn(r, j) ==
  IF r.err # "" THEN r
  ELSE IF ParseRaises(j.issn) THEN Raise(r, "py", "parse_issn")
  ELSE Ok(InsertIssns(r.st, JournalIdOf(r.st, j.source_id), parse_issn(j.issn)), r.sq)

AsmStageCategories(r, j) ==
  IF r.err # "" THEN r
  ELSE IF ParseRaises(j.categories) THEN Raise(r, "py", "parse_categories")
  ELSE AsmLinkCategories(r, JournalIdOf(r.st, j.source_id), parse_categories(j.categories))

AsmStageAreas(r, j) ==
  IF r.err # "" THEN r
  ELSE IF ParseRaises(j.areas) THEN Raise(r, "py", "parse_areas")
  ELSE AsmLinkAreas(r, JournalIdOf(r.st, j.source_id), parse_areas(j.areas))

AsmTryBody(st, sq, j) ==
  AsmStageAreas(
    AsmStageCategories(
      AsmStageIssn(
        AsmStageMetrics(
          AsmStageScope(
            AsmStageJournal(Ok(st, sq), j), j), j), j), j), j)

\* conn.commit(): the open transaction's view becomes the committed store.
Commit(committed, working) == working

\* conn.rollback(): the open transaction's writes are discarded.
\* Variant: the except branch without conn.rollback().
Rollback_Missing(committed, working) == working

Rollback(committed, working) == committed

\* ------------------------------------------------------------------- state
VARIABLES
  db,        \* the committed store (tables)
  tx,        \* the tables as seen by the run's connection (open transaction)
  aborted,   \* the connection's transaction is in the failed state
  seq,       \* the store's id sequences
  pc,        \* the running script and its position, "idle" between runs
  idx,       \* BMJ scraper: index of the next entry of BMJ_JOURNALS
  data,      \* JSON restore: the loaded export (dictionaries)
  imported,  \* the run's imported / success counter
  skipped,   \* ASM importer: the run's skipped counter
  exit,      \* "running", or how the last run ended: "none", "ok", "crash", "noconn"
  log,       \* one entry per record processed so far, oldest first
  mark,      \* length of log when the current run started
  conn,      \* the run's store connection: "none", "open", "closed"
  commits,   \* number of conn.commit() calls of the run
  report,    \* the per-record lines the run has printed, oldest first
  call       \* a call of one of the file-to-file functions, NoCall otherwise

vars == <<db, tx, aborted, seq, pc, idx, data, imported, skipped, exit, log, mark,
          conn, commits, report, call>>

NoData == [subject_areas |-> <<>>, categories |-> <<>>]

NoCall == [fn |-> "none"]

Init ==
  /\ db = EmptyTables
  /\ tx = EmptyTables
  /\ aborted = FALSE
  /\ seq = EmptySeqs
  /\ pc = "idle"
  /\ idx = 1
  /\ data = NoData
  /\ imported = 0
  /\ skipped = 0
  /\ exit = "none"
  /\ log = <<>>
  /\ mark = 0
  /\ conn = "none"
  /\ commits = 0
  /\ report = <<>>
  /\ call = NoCall

Entry(op, rec, result, err, at, src) ==
  [op |-> op, rec |-> rec, result |-> result, err |-> err, at |-> at, src |-> src]

\* A printed line about one record: which script, which record, which step.
Line(op, title, at) == [op |-> op, title |-> title, at |-> at]

\* ------------------------------------------- import_asm_journals.main: run
S(c) == JStr(<<c>>)
Q(n) == JStr(<<"Q", n>>)

AsmMetricsFull ==
  [sjr |-> JStr(<<"2", ".", "5">>), sjr_quartile |-> Q("1"), h_index |-> JInt(7),
   total_docs_2024 |-> JInt(3), total_docs_3years |-> JStr(<<"9">>),
   citations_per_doc |-> JFloat(150), total_citations_3years |-> JInt(4)]

AsmMetricsOther ==
  [sjr |-> JFloat(100), sjr_quartile |-> Q("2"), h_index |-> JStr(<<"8">>),
   total_docs_2024 |-> JInt(5), total_docs_3years |-> JInt(6),
   citations_per_doc |-> JStr(<<"0", ".", "5">>), total_citations_3years |-> JInt(2)]

AsmMetricsNone ==
  [sjr |-> JNull, sjr_quartile |-> JNull, h_index |-> JNull,
   total_docs_2024 |-> JNull, total_docs_3years |-> JStr(<<>>),
   citations_per_doc |-> JStr(<<>>), total_citations_3years |-> JNull]

AsmRecordOf(sid, title, scope, m, issn, cats, areas) ==
  [source_id |-> sid, title |-> title, country |-> S("US"),
   open_access |-> (title = S("T2")), coverage |-> S("1990-2024"),
   rank |-> JStr(<<"1", "2">>), scope |-> scope,
   sjr |-> m.sjr, sjr_quartile |-> m.sjr_quartile, h_index |-> m.h_index,
   total_docs_2024 |-> m.total_docs_2024,
   total_docs_3years |-> m.total_docs_3years,
   citations_per_doc |-> m.citations_per_doc,
   total_citations_3years |-> m.total_citations_3years,
   issn |-> issn, categories |-> cats, areas |-> areas]

IssnAB == JStr(<<"a", ",", " ", "b">>)
IssnBC == JStr(<<"b", ",", ",", "c", " ">>)
CatsCD == JStr(<<"C", " ", "(", "Q", "1", ")", ";", " ", "D">>)
CatsC2 == JStr(<<"C", "(", "Q", "2", ")">>)
CatsCC == JStr(<<"C", " ", "(", "Q", "3", ")", ";", "C", " ", "(", "Q", "4", ")">>)
AreasMN == JStr(<<"M", ";", " ", "N", ";">>)
AreasN == JStr(<<"N">>)

AsmBase == AsmRecordOf(S("s1"), S("T1"), S("X"), AsmMetricsFull, IssnAB, CatsCD, AreasMN)

\* The records an input file may hold: well-formed ones, re-imports with
\* changed or missing fields, records without source id, and records one of
\* whose fields is a JSON object where a string is expected.
AsmInputs ==
  { AsmBase,
    AsmRecordOf(S("s1"), S("T2"), S("Y"), AsmMetricsOther, IssnBC, CatsC2, AreasN),
    AsmRecordOf(S("s1"), S("T1"), JNull, AsmMetricsNone, JNull, JNull, JNull),
    AsmRecordOf(S("s1"), S("T1"), JStr(<<>>), AsmMetricsFull, JStr(<<>>), CatsCC, AreasMN),
    [AsmBase EXCEPT !.sjr = JNull],
    AsmRecordOf(S("s2"), S("T2"), S("Y"), AsmMetricsOther, IssnAB, CatsC2, AreasMN),
    AsmRecordOf(S("s2"), S("T1"), S("X"), AsmMetricsNone, IssnBC, CatsCD, JNull),
    AsmRecordOf(JNull, S("T1"), S("X"), AsmMetricsFull, IssnAB, CatsCD, AreasMN),
    AsmRecordOf(JStr(<<>>), S("T2"), S("X"), AsmMetricsFull, IssnAB, CatsCD, AreasMN),
    [AsmBase EXCEPT !.title = JObj],
    [AsmBase EXCEPT !.scope = JObj, !.title = S("T2")],
    [AsmBase EXCEPT !.sjr_quartile = JObj, !.scope = S("Y")],
    [AsmBase EXCEPT !.issn = JObj, !.sjr = JNull],
    [AsmBase EXCEPT !.categories = JObj, !.issn = IssnBC],
    AsmRecordOf(S("s2"), S("T1"), S("X"), AsmMetricsFull, IssnAB, CatsC2, JObj) }

\* json.load and psycopg2.connect (lines 91-106).
AsmStart ==
  /\ pc = "idle"
  /\ pc' = "asm"
  /\ tx' = db
  /\ aborted' = FALSE
  /\ imported' = 0
  /\ skipped' = 0
  /\ mark' = Len(log)
  /\ conn' = "open"
  /\ commits' = 0
  /\ report' = <<>>
  /\ exit' = "running"
  /\ UNCHANGED <<db, seq, idx, data, log, call>>

\* A counter update that leaves a failed record out of both counters.
AsmCounters_FailedUncounted(outcome, imp, skp) ==
  IF outcome = "committed" THEN [imported |-> imp + 1, skipped |-> skp]
  ELSE IF outcome = "skipped" THEN [imported |-> imp, skipped |-> skp + 1]
  ELSE [imported |-> imp, skipped |-> skp]

\* The counters after a record: imported += 1 (line 217) when it was
\* committed, skipped += 1 (lines 111, 223) otherwise.
AsmCounters(outcome, imp, skp) ==
  IF outcome = "committed" THEN [imported |-> imp + 1, skipped |-> skp]
  ELSE [imported |-> imp, skipped |-> skp + 1]

\* The body of the record loop for record j (lines 108-225).
AsmIteration(j) ==
  /\ pc = "asm"
  /\ Len(log) < MaxSteps
  /\ IF ~Truthy(j.source_id)
     THEN /\ imported' = AsmCounters("skipped", imported, skipped).imported
          /\ skipped' = AsmCounters("skipped", imported, skipped).skipped
          /\ log' = Append(log, Entry("asm", j, "skipped", "", "", j))
          /\ UNCHANGED <<db, tx, seq, commits, report>>
     ELSE LET r == AsmTryBody(tx, seq, j)
          IN  /\ seq' = r.sq
              /\ IF r.err = ""
                 THEN /\ db' = Commit(db, r.st)
                      /\ tx' = Commit(db, r.st)
                      /\ imported' = AsmCounters("committed", imported, skipped).imported
                      /\ skipped' = AsmCounters("committed", imported, skipped).skipped
                      /\ commits' = commits + 1
                      /\ report' = report
                      /\ log' = Append(log, Entry("asm", j, "committed", "", "", j))
                 ELSE /\ db' = db
                      /\ tx' = Rollback(db, r.st)
                      /\ imported' = AsmCounters("failed", imported, skipped).imported
                      /\ skipped' = AsmCounters("failed", imported, skipped).skipped
                      /\ commits' = commits
                      /\ report' = Append(report, Line("asm", j.title, r.at))
                      /\ log' = Append(log, Entry("asm", j, "failed", r.err, r.at, j))
  /\ UNCHANGED <<aborted, pc, exit, mark, conn, call>>

\* One iteration of the record loop, for whatever record the file holds next.
AsmRecord(j) == AsmIteration(j) /\ UNCHANGED <<idx, data>>

\* Summary, verification queries, close (lines 227-250).
AsmFinish ==
  /\ pc = "asm"
  /\ pc' = "idle"
  /\ exit' = "ok"
  /\ tx' = db
  /\ conn' = "closed"
  /\ UNCHANGED <<db, aborted, seq, idx, data, imported, skipped, log, mark,
                 commits, report, call>>

AsmNext == AsmStart \/ (\E j \in AsmInputs : AsmRecord(j)) \/ AsmFinish

SpecAsm == Init /\ [][AsmNext]_vars

\* The importer run on a given input file: journals = json.load(f) is fixed
\* when the run starts and the loop walks it from the first record on.
AsmFileInputs ==
  { AsmBase,
    AsmRecordOf(S("s2"), S("T2"), S("Y"), AsmMetricsOther, IssnAB, CatsC2, AreasMN),
    AsmRecordOf(JNull, S("T1"), S("X"), AsmMetricsFull, IssnAB, CatsCD, AreasMN),
    [AsmBase EXCEPT !.scope = JObj, !.title = S("T2")] }

AsmFiles == UNION { [1..n -> AsmFileInputs] : n \in 0..MaxSteps }

\* json.load and psycopg2.connect (lines 91-106).
AsmLoad(file) ==
  /\ pc = "idle"
  /\ pc' = "asm"
  /\ data' = [journals |-> file]
  /\ idx' = 1
  /\ tx' = db
  /\ aborted' = FALSE
  /\ imported' = 0
  /\ skipped' = 0
  /\ mark' = Len(log)
  /\ conn' = "open"
  /\ commits' = 0
  /\ report' = <<>>
  /\ exit' = "running"
  /\ UNCHANGED <<db, seq, log, call>>

\* for j in journals: the next record of the file (line 108).
AsmNextRecord ==
  /\ pc = "asm"
  /\ idx <= Len(data.journals)
  /\ AsmIteration(data.journals[idx])
  /\ idx' = idx + 1
  /\ data' = data

\* The loop is exhausted: summary, verification queries, close (lines 227-250).
AsmDone ==
  /\ pc = "asm"
  /\ idx > Len(data.journals)
  /\ pc' = "idle"
  /\ exit' = "ok"
  /\ tx' = db
  /\ conn' = "closed"
  /\ UNCHANGED <<db, aborted, seq, idx, data, imported, skipped, log, mark,
                 commits, report, call>>

AsmFileNext == (\E file \in AsmFiles : AsmLoad(file)) \/ AsmNextRecord \/ AsmDone

SpecAsmFile == Init /\ [][AsmFileNext]_vars

\* ------------------------------------------------- scrape_bmj_journals.py
\* BMJ_JOURNALS, cut down to two entries; "s1" is also an ASM source id.
BMJ_JOURNALS ==
  << [source_id |-> S("s1"), title |-> S("B1")],
     [source_id |-> S("s3"), title |-> S("B3")] >>

BmjPublisher == JStr(<<"BMJ">>)

\* What a journal page holds, as far as fetch_journal_details reads it:
\*   reachable  requests.get succeeded
\*   scope      the text found by the three scope methods, JNull when none
\*   hindex     text of div.hindexnumber, JNull when the element is missing
\*   cells      texts of the div.cellcontent elements, in document order
\*   quartiles  the quartile tags occurring in the page text
\*   oa         "Open Access" occurs in the page text
Page(reachable, scope, hindex, cells, quartiles, oa) ==
  [reachable |-> reachable, scope |-> scope, hindex |-> hindex,
   cells |-> cells, quartiles |-> quartiles, oa |-> oa]

BmjDefaults(source_id, title) ==
  [source_id |-> source_id, title |-> title, publisher |-> BmjPublisher,
   scope |-> JNull, sjr |-> JNull, sjr_quartile |-> JNull, h_index |-> JNull,
   country |-> S("UK"), open_access |-> FALSE]

\* re.match(r'^\d+[,\.]\d+$', text)
SjrCellPos(s) ==
  IF \E i \in 1..Len(s) : s[i] \in {",", "."}
  THEN CHOOSE i \in 1..Len(s) : s[i] \in {",", "."} /\ \A k \in 1..(i - 1) : s[k] \notin {",", "."}
  ELSE 0

SjrCellMatches(s) ==
  LET d == SjrCellPos(s)
  IN  /\ d > 1 /\ d < Len(s)
      /\ AllDigits(SubSeq(s, 1, d - 1))
      /\ AllDigits(SubSeq(s, d + 1, Len(s)))

\* float(text.replace(',', '.'))
SjrCellValue(s) ==
  FloatOfStr([i \in 1..Len(s) |-> IF s[i] = "," THEN "." ELSE s[i]])

\* The first cell that looks like a decimal number below 50.
RECURSIVE ScanSjrCells(_)
ScanSjrCells(cells) ==
  IF cells = <<>> THEN JNull
  ELSE IF SjrCellMatches(Head(cells)) /\ SjrCellValue(Head(cells)) < 50 * 100
       THEN JFloat(SjrCellValue(Head(cells)))
       ELSE ScanSjrCells(Tail(cells))

\* for q in ['Q1', 'Q2', 'Q3', 'Q4']: the first one found on the page.
FirstQuartile(qs) ==
  IF qs = {} THEN JNull
  ELSE JStr(<<"Q", CHOOSE q \in qs : \A o \in qs : DigitVal(q) <= DigitVal(o)>>)

fetch_journal_details(source_id, title, page) ==
  LET d == BmjDefaults(source_id, title)
  IN  IF ~page.reachable THEN d
      ELSE [d EXCEPT
              !.scope = page.scope,
              !.h_index = IF page.hindex.k = "str" /\ IntSyntax(page.hindex.s)
                          THEN JInt(IntOfStr(page.hindex.s)) ELSE JNull,
              !.sjr = ScanSjrCells(page.cells),
              !.sjr_quartile = FirstQuartile(page.quartiles),
              !.open_access = page.oa]

\* A string literal with a NUL character is refused by the driver.
HasNul(v) == v.k = "str" /\ \E i \in 1..Len(v.s) : v.s[i] = "NUL"

\* Variant: the INSERT branch taken without looking the source id up.
BmjWriteJournal_NoLookup(r, journal) ==
  LET nid == r.sq.journals + 1
  IN  Ok([r.st EXCEPT !.journals =
            Append(@, [id |-> nid, source_id |-> journal.source_id,
                       title |-> journal.title,
                       publisher |-> journal.publisher,
                       country |-> journal.country,
                       open_access |-> journal.open_access,
                       coverage |-> JNull, scimago_rank |-> JNull])],
         [r.sq EXCEPT !.journals = nid])

\* SELECT id ... WHERE source_id, then UPDATE or INSERT ... RETURNING id.
BmjWriteJournal(r, journal) ==
  LET same(row) == row.source_id = journal.source_id
      merge(row) == [row EXCEPT !.title = journal.title,
                                !.publisher = journal.publisher,
                                !.country = journal.country,
                                !.open_access = journal.open_access]
      nid == r.sq.journals + 1
  IN  IF Some(r.st.journals, same)
      THEN Ok([r.st EXCEPT !.journals = UpdateWhere(@, same, merge)], r.sq)
      ELSE Ok([r.st EXCEPT !.journals =
                 Append(@, [id |-> nid, source_id |-> journal.source_id,
                            title |-> journal.title,
                            publisher |-> journal.publisher,
                            country |-> journal.country,
                            open_access |-> journal.open_access,
                            coverage |-> JNull, scimago_rank |-> JNull])],
              [r.sq EXCEPT !.journals = nid])

\* Variant: SET x = EXCLUDED.x, without COALESCE.
Coalesce_Overwrite(new, old) == new

\* COALESCE(EXCLUDED.x, journal_metrics.x)
Coalesce(new, old) == IF new.k # "null" THEN new ELSE old

BmjMergeMetrics(old, journal) ==
  [old EXCEPT !.sjr = Coalesce(journal.sjr, old.sjr),
              !.sjr_quartile = Coalesce(journal.sjr_quartile, old.sjr_quartile),
              !.h_index = Coalesce(journal.h_index, old.h_index)]

BmjUpsertMetrics(r, jid, journal) ==
  LET same(row) == row.journal_id = jid
      merge(row) == BmjMergeMetrics(row, journal)
  IN  IF Some(r.st.journal_metrics, same)
      THEN Ok([r.st EXCEPT !.journal_metrics = UpdateWhere(@, same, merge)], r.sq)
      ELSE Ok([r.st EXCEPT !.journal_metrics =
                 Append(@, [journal_id |-> jid, sjr |-> journal.sjr,
                            sjr_quartile |-> journal.sjr_quartile,
                            h_index |-> journal.h_index,
                            total_docs_2024 |-> JNull, total_docs_3years |-> JNull,
                            citations_per_doc |-> JNull,
                            total_citations_3years |-> JNull])], r.sq)

\* The try block of insert_journal_to_db (lines 183-219).
BmjStageScope(r, journal) ==
  IF ~Truthy(journal.scope) THEN r
  ELSE IF HasNul(journal.scope) THEN Raise(r, "py", "journal_scopes")
  ELSE UpsertScope(r, JournalIdOf(r.st, journal.source_id), journal.scope)

BmjStageMetrics(r, journal) ==
  IF r.err # "" THEN r
  ELSE BmjUpsertMetrics(r, JournalIdOf(r.st, journal.source_id), journal)

insert_journal_to_db(st, sq, journal) ==
  BmjStageMetrics(BmjStageScope(BmjWriteJournal(Ok(st, sq), journal), journal), journal)

BmjPages ==
  { Page(TRUE, S("X"), JStr(<<"7">>), << <<"Q", "1">>, <<"2", ",", "5">> >>, {"1", "2"}, TRUE),
    Page(TRUE, S("Y"), JStr(<<"x">>), << <<"7", "5", ".", "0">>, <<"1", ".", "0">> >>, {"3"}, FALSE),
    Page(TRUE, JNull, JNull, <<>>, {}, FALSE),
    Page(TRUE, JNull, JStr(<<"9">>), <<>>, {}, TRUE),
    Page(TRUE, JStr(<<"Z", "NUL">>), JStr(<<"7">>), << <<"3", ".", "5">> >>, {"4"}, FALSE),
    Page(FALSE, S("X"), JStr(<<"7">>), << <<"2", ".", "5">> >>, {"1"}, TRUE) }

\* The except branch of fetch_journal_details prints the error (line 175).
FetchLines(title, page) ==
  IF page.reachable THEN <<>> ELSE <<Line("bmj", title, "fetch")>>

\* psycopg2.connect succeeded (lines 235-247).
BmjStart ==
  /\ pc = "idle"
  /\ pc' = "bmj"
  /\ tx' = db
  /\ aborted' = FALSE
  /\ idx' = 1
  /\ imported' = 0
  /\ skipped' = 0
  /\ mark' = Len(log)
  /\ conn' = "open"
  /\ commits' = 0
  /\ report' = <<>>
  /\ exit' = "running"
  /\ UNCHANGED <<db, seq, data, log, call>>

\* psycopg2.connect raised (lines 238-241): main prints and returns.
BmjConnectFails ==
  /\ pc = "idle"
  /\ exit' = "noconn"
  /\ conn' = "none"
  /\ UNCHANGED <<db, tx, aborted, seq, pc, idx, data, imported, skipped, log, mark,
                 commits, report, call>>

\* One iteration of the journal loop (lines 249-266): fetch, then insert.
BmjJournal(page) ==
  /\ pc = "bmj"
  /\ idx <= Len(BMJ_JOURNALS)
  /\ Len(log) < MaxSteps
  /\ LET details == fetch_journal_details(BMJ_JOURNALS[idx].source_id,
                                          BMJ_JOURNALS[idx].title, page)
         r == insert_journal_to_db(tx, seq, details)
     IN  /\ seq' = r.sq
         /\ IF r.err = ""
            THEN /\ db' = Commit(db, r.st)
                 /\ tx' = Commit(db, r.st)
                 /\ imported' = imported + 1
                 /\ commits' = commits + 1
                 /\ report' = report \o FetchLines(details.title, page)
                 /\ log' = Append(log, Entry("bmj", details, "committed", "", "", page))
            ELSE /\ db' = db
                 /\ tx' = Rollback(db, r.st)
                 /\ imported' = imported
                 /\ commits' = commits
                 /\ report' = report \o FetchLines(details.title, page)
                                     \o <<Line("bmj", details.title, r.at)>>
                 /\ log' = Append(log, Entry("bmj", details, "failed", r.err, r.at, page))
  /\ idx' = idx + 1
  /\ UNCHANGED <<aborted, pc, data, skipped, exit, mark, conn, call>>

\* Summary and conn.close() (lines 268-273).
BmjFinish ==
  /\ pc = "bmj"
  /\ idx > Len(BMJ_JOURNALS)
  /\ pc' = "idle"
  /\ exit' = "ok"
  /\ tx' = db
  /\ conn' = "closed"
  /\ UNCHANGED <<db, aborted, seq, idx, data, imported, skipped, log, mark,
                 commits, report, call>>

BmjNext == BmjStart \/ BmjConnectFails \/ (\E page \in BmjPages : BmjJournal(page)) \/ BmjFinish

SpecBmj == Init /\ [][BmjNext]_vars

\* Both synchronizers working on the same store, one run after the other.
SyncNext == AsmNext \/ BmjNext

SpecSync == Init /\ [][SyncNext]_vars

\* ------------------------------------------ import_from_json.import_database
\* INSERT INTO <dictionary> (id, name) ... ON CONFLICT (id) DO UPDATE SET
\* name; the unique constraint on name makes a second row with a stored name
\* a store error.
LoadDictionaryRow(r, table, e) ==
  LET same(row) == row.id = e.id
      merge(row) == [row EXCEPT !.name = e.name]
  IN  IF r.err # "" THEN r
      ELSE IF \E row \in Range(r.st[table]) : row.name = e.name /\ row.id # e.id
      THEN Raise(r, "db", table)
      ELSE IF Some(r.st[table], same)
      THEN Ok([r.st EXCEPT ![table] = UpdateWhere(@, same, merge)], r.sq)
      ELSE Ok([r.st EXCEPT ![table] = Append(@, [id |-> e.id, name |-> e.name])], r.sq)

RECURSIVE LoadDictionary(_, _, _)
LoadDictionary(r, table, entries) ==
  IF entries = <<>> THEN r
  ELSE LoadDictionary(LoadDictionaryRow(r, table, Head(entries)), table, Tail(entries))

\* SELECT setval('<t>_id_seq', (SELECT MAX(id) FROM <t>)): nothing happens on
\* an empty table (setval of NULL).
SetvalMax(sq, st, table) ==
  IF st[table] = <<>> THEN sq
  ELSE [sq EXCEPT ![table] = Max({row.id : row \in Range(st[table])})]

\* INSERT INTO journals (id, ...) ... ON CONFLICT (id) DO UPDATE; the unique
\* constraint on source_id refuses a second row with a stored source id.
JsonJournalRow(j) ==
  [id |-> j.id, source_id |-> j.source_id, title |-> j.title,
   publisher |-> j.publisher, country |-> j.country,
   open_access |-> j.open_access, coverage |-> j.coverage,
   scimago_rank |-> j.scimago_rank]

JsonUpsertJournal(r, j) ==
  LET same(row) == row.id = j.id
      merge(row) == JsonJournalRow(j)
  IN  IF \E row \in Range(r.st.journals) :
            row.source_id = j.source_id /\ row.id # j.id /\ j.source_id.k # "null"
      THEN Raise(r, "db", "journals")
      ELSE IF Some(r.st.journals, same)
      THEN Ok([r.st EXCEPT !.journals = UpdateWhere(@, same, merge)], r.sq)
      ELSE Ok([r.st EXCEPT !.journals = Append(@, JsonJournalRow(j))], r.sq)

JsonMetricsRow(j) ==
  [journal_id |-> j.id, sjr |-> j.metrics.sjr,
   sjr_quartile |-> j.metrics.sjr_quartile, h_index |-> j.metrics.h_index,
   total_docs_2024 |-> j.metrics.total_docs_2024,
   total_docs_3years |-> j.metrics.total_docs_3years,
   citations_per_doc |-> j.metrics.citations_per_doc,
   total_citations_3years |-> j.metrics.total_citations_3years]

JsonUpsertMetrics(r, j) ==
  LET same(row) == row.journal_id = j.id
      merge(row) == JsonMetricsRow(j)
  IN  IF Some(r.st.journal_metrics, same)
      THEN Ok([r.st EXCEPT !.journal_metrics = UpdateWhere(@, same, merge)], r.sq)
      ELSE Ok([r.st EXCEPT !.journal_metrics = Append(@, JsonMetricsRow(j))], r.sq)

\* SELECT id FROM categories WHERE name; the link is written only when the
\* row is found.  cat['name'] raises on an entry that is not an object with
\* a name.
JsonLinkCategory(r, jid, cat) ==
  LET named(row) == row.name = cat.name
      cid == First(r.st.categories, named).id
      same(row) == row.journal_id = jid /\ row.category_id = cid
      merge(row) == [row EXCEPT !.quartile = cat.quartile]
  IN  IF r.err # "" THEN r
      ELSE IF ~cat.wellformed THEN Raise(r, "py", "categories")
      ELSE IF ~Some(r.st.categories, named) THEN r
      ELSE IF Some(r.st.journal_categories, same)
      THEN Ok([r.st EXCEPT !.journal_categories = UpdateWhere(@, same, merge)], r.sq)
      ELSE Ok([r.st EXCEPT !.journal_categories =
                 Append(@, [journal_id |-> jid, category_id |-> cid,
                            quartile |-> cat.quartile])], r.sq)

RECURSIVE JsonLinkCategories(_, _, _)
JsonLinkCategories(r, jid, cats) ==
  IF cats = <<>> THEN r
  ELSE JsonLinkCategories(JsonLinkCategory(r, jid, Head(cats)), jid, Tail(cats))

JsonLinkArea(r, jid, name) ==
  LET named(row) == row.name = name
      aid == First(r.st.subject_areas, named).id
      same(row) == row.journal_id = jid /\ row.area_id = aid
  IN  IF r.err # "" THEN r
      ELSE IF ~Some(r.st.subject_areas, named) THEN r
      ELSE IF Some(r.st.journal_areas, same) THEN r
      ELSE Ok([r.st EXCEPT !.journal_areas =
                 Append(@, [journal_id |-> jid, area_id |-> aid])], r.sq)

RECURSIVE JsonLinkAreas(_, _, _)
JsonLinkAreas(r, jid, names) ==
  IF names = <<>> THEN r
  ELSE JsonLinkAreas(JsonLinkArea(r, jid, Head(names)), jid, Tail(names))

\* The try block for one journal (lines 74-163).  On a connection whose
\* transaction has failed every statement raises.
JsonStageJournal(r, failed, j) ==
  IF failed THEN Raise(r, "db", "journals") ELSE JsonUpsertJournal(r, j)

JsonStageScope(r, j) ==
  IF r.err # "" \/ ~Truthy(j.scope_text) THEN r
  ELSE UpsertScope(r, j.id, j.scope_text)

JsonStageMetrics(r, j) == IF r.err # "" THEN r ELSE JsonUpsertMetrics(r, j)

JsonStageIssn(r, j) ==
  IF r.err # "" THEN r ELSE Ok(InsertIssns(r.st, j.id, j.issns), r.sq)

JsonTryBody(st, sq, failed, j) ==
  JsonLinkAreas(
    JsonLinkCategories(
      JsonStageIssn(
        JsonStageMetrics(
          JsonStageScope(
            JsonStageJournal(Ok(st, sq), failed, j), j), j), j),
      j.id, j.categories),
    j.id, j.areas)

CatEntry(name, quartile) == [wellformed |-> TRUE, name |-> name, quartile |-> quartile]
CatBroken == [wellformed |-> FALSE, name |-> <<>>, quartile |-> JNull]

JsonMetrics(sjr, q, h) ==
  [sjr |-> sjr, sjr_quartile |-> q, h_index |-> h, total_docs_2024 |-> JInt(3),
   total_docs_3years |-> JInt(9), citations_per_doc |-> JFloat(150),
   total_citations_3years |-> JNull]

JsonJournal(id, sid, title, scope, m, issns, cats, areas) ==
  [id |-> id, source_id |-> sid, title |-> title, publisher |-> AsmPublisher,
   country |-> S("US"), open_access |-> FALSE, coverage |-> JNull,
   scimago_rank |-> JInt(id), scope_text |-> scope, metrics |-> m,
   issns |-> issns, categories |-> cats, areas |-> areas]

\* The dictionaries an export file may carry: complete, incomplete, empty,
\* and one with a name under two ids.
JsonDictionaries ==
  { [subject_areas |-> << [id |-> 1, name |-> <<"M">>], [id |-> 2, name |-> <<"N">>] >>,
     categories |-> << [id |-> 1, name |-> <<"C">>], [id |-> 2, name |-> <<"D">>] >>],
    [subject_areas |-> << [id |-> 1, name |-> <<"M">>] >>,
     categories |-> << [id |-> 2, name |-> <<"C">>] >>],
    [subject_areas |-> << [id |-> 1, name |-> <<"M">>], [id |-> 2, name |-> <<"M">>] >>,
     categories |-> << [id |-> 1, name |-> <<"C">>] >>],
    [subject_areas |-> << [id |-> 1, name |-> <<"M">>] >>,
     categories |-> << [id |-> 1, name |-> <<"C">>], [id |-> 3, name |-> <<"C">>] >>],
    NoData }

JsonJournalInputs ==
  { JsonJournal(1, S("s1"), S("T1"), S("X"), JsonMetrics(JFloat(250), Q("1"), JInt(7)),
                << <<"a">>, <<"b">> >>, << CatEntry(<<"C">>, Q("1")) >>, << <<"M">> >>),
    JsonJournal(1, S("s1"), S("T2"), JNull, JsonMetrics(JNull, JNull, JInt(0)),
                << <<"b">> >>, << CatEntry(<<"C">>, Q("2")) >>, <<>>),
    JsonJournal(2, S("s2"), S("T2"), S("Y"), JsonMetrics(JFloat(100), Q("2"), JNull),
                << <<"c">> >>, << CatEntry(<<"C">>, Q("2")), CatEntry(<<"D">>, JNull) >>,
                << <<"M">>, <<"N">> >>),
    JsonJournal(2, S("s1"), S("T2"), S("Y"), JsonMetrics(JFloat(100), Q("2"), JNull),
                << <<"c">> >>, << CatEntry(<<"C">>, Q("3")) >>, << <<"M">> >>),
    JsonJournal(3, S("s3"), S("T1"), S("X"), JsonMetrics(JNull, JNull, JNull),
                << <<"d">> >>, << CatEntry(<<"C">>, Q("1")), CatBroken >>, << <<"M">> >>),
    JsonJournal(3, S("s3"), S("T2"), JNull, JsonMetrics(JFloat(50), Q("4"), JInt(1)),
                <<>>, <<>>, << <<"M">> >>) }

\* Load the file, connect, TRUNCATE ... RESTART IDENTITY CASCADE, commit
\* (lines 29-44).
JsonStart(d) ==
  /\ pc = "idle"
  /\ pc' = "json_areas"
  /\ data' = d
  /\ db' = EmptyTables
  /\ tx' = EmptyTables
  /\ seq' = EmptySeqs
  /\ aborted' = FALSE
  /\ imported' = 0
  /\ skipped' = 0
  /\ mark' = Len(log)
  /\ conn' = "open"
  /\ commits' = 1
  /\ report' = <<>>
  /\ exit' = "running"
  /\ UNCHANGED <<idx, log, call>>

\* An exception outside the record loop's try: it leaves import_database
\* before cur.close() and conn.close() (lines 185-186) are reached; the open
\* transaction is lost.
JsonCrash ==
  /\ pc' = "idle"
  /\ exit' = "crash"
  /\ tx' = db
  /\ aborted' = FALSE
  /\ UNCHANGED <<db, data, imported, skipped, idx, log, mark,
                 conn, commits, report, call>>

\* Subject areas, sequence reset, commit (lines 46-56).
JsonAreas ==
  /\ pc = "json_areas"
  /\ LET r == LoadDictionary(Ok(tx, seq), "subject_areas", data.subject_areas)
     IN  IF r.err # ""
         THEN JsonCrash /\ seq' = seq
         ELSE /\ seq' = SetvalMax(r.sq, r.st, "subject_areas")
              /\ db' = Commit(db, r.st)
              /\ tx' = Commit(db, r.st)
              /\ pc' = "json_categories"
              /\ commits' = commits + 1
              /\ UNCHANGED <<aborted, data, imported, skipped, idx, exit, log, mark,
                             conn, report, call>>

\* Categories, sequence reset, commit (lines 58-68).
JsonCategories ==
  /\ pc = "json_categories"
  /\ LET r == LoadDictionary(Ok(tx, seq), "categories", data.categories)
     IN  IF r.err # ""
         THEN JsonCrash /\ seq' = seq
         ELSE /\ seq' = SetvalMax(r.sq, r.st, "categories")
              /\ db' = Commit(db, r.st)
              /\ tx' = Commit(db, r.st)
              /\ pc' = "json_journals"
              /\ commits' = commits + 1
              /\ UNCHANGED <<aborted, data, imported, skipped, idx, exit, log, mark,
                             conn, report, call>>

\* One iteration of the journal loop (lines 73-167).  The except branch
\* prints and continues: it neither rolls back nor commits.
JsonRecord(j) ==
  /\ pc = "json_journals"
  /\ Len(log) < MaxSteps
  /\ LET r == JsonTryBody(tx, seq, aborted, j)
     IN  /\ tx' = r.st
         /\ seq' = r.sq
         /\ aborted' = (aborted \/ r.err = "db")
         /\ imported' = IF r.err = "" THEN imported + 1 ELSE imported
         /\ report' = IF r.err = "" THEN report
                       ELSE Append(report, Line("json", j.title, r.at))
         /\ log' = Append(log, Entry("json", j, IF r.err = "" THEN "imported" ELSE "failed",
                                     r.err, r.at, j))
  /\ UNCHANGED <<db, pc, idx, data, skipped, exit, mark, conn, commits, call>>

\* Journal sequence reset, commit, verification, close (lines 169-186).  The
\* setval statement raises on a failed transaction.
JsonFinish ==
  /\ pc = "json_journals"
  /\ IF aborted
     THEN JsonCrash /\ seq' = seq
     ELSE /\ seq' = SetvalMax(seq, tx, "journals")
          /\ db' = Commit(db, tx)
          /\ tx' = Commit(db, tx)
          /\ pc' = "idle"
          /\ exit' = "ok"
          /\ conn' = "closed"
          /\ commits' = commits + 1
          /\ UNCHANGED <<aborted, data, imported, skipped, idx, log, mark, report, call>>

JsonNext ==
  \/ \E d \in JsonDictionaries : JsonStart(d)
  \/ JsonAreas
  \/ JsonCategories
  \/ \E j \in JsonJournalInputs : JsonRecord(j)
  \/ JsonFinish

\* The restore script run against a store already filled by the ASM importer.
InitSeeded ==
  /\ db = AsmTryBody(EmptyTables, EmptySeqs, AsmBase).st
  /\ tx = db
  /\ aborted = FALSE
  /\ seq = AsmTryBody(EmptyTables, EmptySeqs, AsmBase).sq
  /\ pc = "idle"
  /\ idx = 1
  /\ data = NoData
  /\ imported = 0
  /\ skipped = 0
  /\ exit = "none"
  /\ log = <<>>
  /\ mark = 0
  /\ conn = "none"
  /\ commits = 0
  /\ report = <<>>
  /\ call = NoCall

SpecJson == InitSeeded /\ [][JsonNext]_vars

\* ------------------------------- clean_scope_data.extract_scope_description
\* Text is held as TLA+ strings; SubSeq(s, i, i) is the character at i.
CharAt(s, i) == SubSeq(s, i, i)

Rest(s, i) == SubSeq(s, i, Len(s))

\* `sub in s` and s.index(sub): the first position of sub in s, 0 when absent.
Occurrences(s, sub) ==
  {i \in 1..(Len(s) - Len(sub) + 1) : SubSeq(s, i, i + Len(sub) - 1) = sub}

Index(s, sub) ==
  LET at == Occurrences(s, sub)
  IN  IF at = {} THEN 0 ELSE CHOOSE i \in at : \A k \in at : i <= k

Contains(s, sub) == Occurrences(s, sub) # {}

IsWhite(s, i) == IsSpace(CharAt(s, i))

\* str.strip() on text
RECURSIVE TextLStrip(_)
TextLStrip(s) == IF s # "" /\ IsWhite(s, 1) THEN TextLStrip(Rest(s, 2)) ELSE s

RECURSIVE TextRStrip(_)
TextRStrip(s) ==
  IF s # "" /\ IsWhite(s, Len(s)) THEN TextRStrip(SubSeq(s, 1, Len(s) - 1)) ELSE s

TextStrip(s) == TextRStrip(TextLStrip(s))

\* re.sub(r'\s+', ' ', text): every run of whitespace becomes one space.
Whites(s) == {i \in 1..Len(s) : IsWhite(s, i)}

RECURSIVE CollapseWhitespace(_)
CollapseWhitespace(s) ==
  IF Whites(s) = {} THEN s
  ELSE LET i == CHOOSE i \in Whites(s) : \A k \in Whites(s) : i <= k
       IN  SubSeq(s, 1, i - 1) \o " " \o CollapseWhitespace(TextLStrip(Rest(s, i)))

UpperCase == "ABCDEFGHIJKLMNOPQRSTUVWXYZ"
LowerCase == "abcdefghijklmnopqrstuvwxyz"

LowerChar(c) ==
  IF Contains(UpperCase, c) THEN CharAt(LowerCase, Index(UpperCase, c)) ELSE c

\* `token in s.lower()`
InLower(token, s) ==
  \E i \in 1..(Len(s) - Len(token) + 1) :
    \A k \in 1..Len(token) : LowerChar(CharAt(s, i + k - 1)) = CharAt(token, k)

scope_markers == <<"Scope", "Aims and Scope", "About">>

end_markers ==
  <<"Join the conversation", "Enter Journal", "Related journals", "Homepage",
    "How to publish", "Contact", "Quartiles">>

\* An end-marker loop that stops at the first listed marker it finds.
RECURSIVE CutAtEndMarkers_FirstHit(_, _)
CutAtEndMarkers_FirstHit(text, ends) ==
  IF ends = <<>> THEN text
  ELSE IF Contains(text, Head(ends)) THEN SubSeq(text, 1, Index(text, Head(ends)) - 1)
  ELSE CutAtEndMarkers_FirstHit(text, Tail(ends))

\* An end-marker loop that cuts nothing.
CutAtEndMarkers_None(text, ends) == text

\* The end-marker loop (lines 34-36): each marker in turn cuts the text at its
\* first occurrence in what is left.
RECURSIVE CutAtEndMarkers(_, _)
CutAtEndMarkers(text, ends) ==
  IF ends = <<>> THEN text
  ELSE CutAtEndMarkers(IF Contains(text, Head(ends))
                       THEN SubSeq(text, 1, Index(text, Head(ends)) - 1)
                       ELSE text,
                       Tail(ends))

\* The cleaned text after a marker that occurs in raw (lines 25-39).
Candidate(raw, marker) ==
  TextStrip(CollapseWhitespace(
    CutAtEndMarkers(TextStrip(Rest(raw, Index(raw, marker) + Len(marker))), end_markers)))

\* A threshold test that also accepts a text of exactly 50 characters.
LongEnough_AtLeast50(text) == Len(text) >= 50

\* len(text) > 50 (line 41)
LongEnough(text) == Len(text) > 50

\* The marker loop (lines 22-42): the first listed marker that occurs in raw
\* and whose candidate is long enough.
RECURSIVE TryMarkers(_, _)
TryMarkers(raw, markers) ==
  IF markers = <<>> THEN [path |-> "none", marker |-> "", text |-> ""]
  ELSE IF Contains(raw, Head(markers)) /\ LongEnough(Candidate(raw, Head(markers)))
  THEN [path |-> "marker", marker |-> Head(markers), text |-> Candidate(raw, Head(markers))]
  ELSE TryMarkers(raw, Tail(markers))

\* re.split(r'(?<=[.!?])\s+', raw): cut at every whitespace run that follows
\* '.', '!' or '?'.
SentenceBreaks(s) ==
  {i \in 2..Len(s) : IsWhite(s, i) /\ CharAt(s, i - 1) \in {".", "!", "?"}}

RECURSIVE SplitSentences(_)
SplitSentences(s) ==
  LET at == SentenceBreaks(s)
  IN  IF at = {} THEN <<s>>
      ELSE LET i == CHOOSE i \in at : \A k \in at : i <= k
           IN  <<SubSeq(s, 1, i - 1)>> \o SplitSentences(TextLStrip(Rest(s, i)))

skip_tokens == {"click", "login", "subscribe", "issn", "homepage"}

descriptive_tokens ==
  {"publishes", "journal", "research", "scope", "covers", "dedicated", "focuses"}

\* The sentence loop (lines 47-55).
RECURSIVE Descriptive(_)
Descriptive(sentences) ==
  IF sentences = <<>> THEN <<>>
  ELSE LET sent == TextStrip(Head(sentences))
       IN  IF \E w \in skip_tokens : InLower(w, sent)
           THEN Descriptive(Tail(sentences))
           ELSE IF \E w \in descriptive_tokens : InLower(w, sent)
           THEN <<sent>> \o Descriptive(Tail(sentences))
           ELSE Descriptive(Tail(sentences))

\* ' '.join(parts)
RECURSIVE JoinSpace(_)
JoinSpace(parts) ==
  IF parts = <<>> THEN ""
  ELSE IF Len(parts) = 1 THEN Head(parts)
  ELSE Head(parts) \o " " \o JoinSpace(Tail(parts))

\* A fallback that joins every descriptive sentence, without the cap of 5.
SentenceFallback_NoCap(raw) ==
  LET descriptive == Descriptive(SplitSentences(raw))
  IN  IF descriptive # <<>>
      THEN [path |-> "sentences", marker |-> "", text |-> JoinSpace(descriptive)]
      ELSE [path |-> "none", marker |-> "", text |-> ""]

\* Lines 45-60.
SentenceFallback(raw) ==
  LET descriptive == Descriptive(SplitSentences(raw))
  IN  IF descriptive # <<>>
      THEN [path |-> "sentences", marker |-> "",
            text |-> JoinSpace(SubSeq(descriptive, 1, IF Len(descriptive) < 5
                                                      THEN Len(descriptive) ELSE 5))]
      ELSE [path |-> "none", marker |-> "", text |-> ""]

\* extract_scope_description(raw_scope, title); title is not used.  The
\* returned string is `text`; path and marker record where it came from.
extract_scope_description(raw_scope) ==
  IF raw_scope = "" THEN [path |-> "none", marker |-> "", text |-> ""]
  ELSE IF TryMarkers(raw_scope, scope_markers).path = "marker"
  THEN TryMarkers(raw_scope, scope_markers)
  ELSE SentenceFallback(raw_scope)

\* Scraped page texts: navigation, a marker, a narrative, an end marker, more
\* navigation.
Narrative37 == "This journal publishes research on X."
Narrative50 == "This journal publishes research on heart diseases."
Narrative51 == "This journal publishes research on kidney diseases."
NarrativeSpaced ==
  "The journal   covers\n\tcardiology,  stroke and vascular medicine for all clinicians."
NarrativePlain == "Peer reviewed and open to all."

ScopePrefixes ==
  { "...", "", "BMJ Open Home About the site ",
    "Scope of this site: all you need to know about a career in medicine. " }

ScopeNarratives ==
  {"", Narrative37, Narrative50, Narrative51, NarrativeSpaced, NarrativePlain}

ScopeSuffixes ==
  { "", "...", " Follow us. Click here to login.",
    " About the journal: it is the official journal of the society and appears monthly." }

ScopeDocs ==
  [prefix : ScopePrefixes, marker : Range(scope_markers) \cup {""},
   narrative : ScopeNarratives, end : {"Join the conversation", "Quartiles", ""},
   suffix : ScopeSuffixes]

\* The parts of a page text, a blank between two parts that are both there.
Spaced(a, b) == IF a = "" \/ b = "" THEN a \o b ELSE a \o " " \o b

RawOf(doc) ==
  Spaced(Spaced(doc.prefix \o doc.marker, doc.narrative), doc.end) \o doc.suffix

ScopeCall(doc) ==
  [fn |-> "extract_scope_description", doc |-> doc, raw |-> RawOf(doc),
   done |-> FALSE, res |-> [path |-> "none", marker |-> "", text |-> ""]]

InitScope ==
  /\ db = EmptyTables
  /\ tx = EmptyTables
  /\ aborted = FALSE
  /\ seq = EmptySeqs
  /\ pc = "idle"
  /\ idx = 1
  /\ data = NoData
  /\ imported = 0
  /\ skipped = 0
  /\ exit = "none"
  /\ log = <<>>
  /\ mark = 0
  /\ conn = "none"
  /\ commits = 0
  /\ report = <<>>
  /\ call \in {ScopeCall(doc) : doc \in ScopeDocs}

ExtractScope ==
  /\ call.fn = "extract_scope_description"
  /\ ~call.done
  /\ call' = [call EXCEPT !.done = TRUE, !.res = extract_scope_description(call.raw)]
  /\ UNCHANGED <<db, tx, aborted, seq, pc, idx, data, imported, skipped, exit, log, mark,
                 conn, commits, report>>

SpecScope == InitScope /\ [][ExtractScope]_vars

\* Page texts for the end of the narrative: a marker, a narrative, then up
\* to two navigation items in either order, each an end marker as listed or
\* one whose words the page separates by a line break or by two blanks.
BrokenEnds ==
  {"Join the\nconversation", "Related  journals", "How to\n publish", "Enter\tJournal"}

EndForms == Range(end_markers) \cup BrokenEnds \cup {""}

EndDocs ==
  [kind : {"ends"}, marker : {"Scope", "About"},
   narrative : {Narrative51, NarrativeSpaced},
   first : EndForms, second : EndForms, suffix : {"", " Follow us."}]

RawOfEnds(doc) ==
  Spaced(Spaced(Spaced("Home " \o doc.marker, doc.narrative), doc.first), doc.second)
    \o doc.suffix

ExtractCall(doc, raw) ==
  [fn |-> "extract_scope_description", doc |-> doc, raw |-> raw,
   done |-> FALSE, res |-> [path |-> "none", marker |-> "", text |-> ""]]

\* Page texts for the sentence filter: up to MaxSentences sentences, each
\* with the tokens it holds known by construction (skip: a navigation token,
\* desc: a descriptive token).
SentenceKinds ==
  { [text |-> "The journal covers stroke.", skip |-> FALSE, desc |-> TRUE],
    [text |-> "Click to read the journal!", skip |-> TRUE, desc |-> TRUE],
    [text |-> "Peer reviewed?", skip |-> FALSE, desc |-> FALSE],
    [text |-> "RESEARCH is Dedicated work.", skip |-> FALSE, desc |-> TRUE],
    [text |-> "About us.", skip |-> FALSE, desc |-> FALSE] }

\* Any kind of sentence in the first three places, the two plain descriptive
\* ones after that.
PlainKinds == { k \in SentenceKinds : k.desc /\ ~k.skip }

SentenceDocs ==
  { [kind |-> "sentences", sentences |-> ss] :
      ss \in UNION { { f \in [1..n -> SentenceKinds] : \A i \in 4..n : f[i] \in PlainKinds } :
                     n \in 0..MaxSentences } }

\* The sentences one after the other, a blank or a line break between two.
RECURSIVE RawOfSentences(_)
RawOfSentences(ss) ==
  IF ss = <<>> THEN ""
  ELSE IF Len(ss) = 1 THEN ss[1].text
  ELSE ss[1].text \o (IF Len(ss) % 2 = 0 THEN " " ELSE "\n  ") \o RawOfSentences(Tail(ss))

ExtractCalls ==
  { ExtractCall(doc, RawOfEnds(doc)) : doc \in EndDocs }
    \cup { ExtractCall(doc, RawOfSentences(doc.sentences)) : doc \in SentenceDocs }

InitExtract ==
  /\ db = EmptyTables
  /\ tx = EmptyTables
  /\ aborted = FALSE
  /\ seq = EmptySeqs
  /\ pc = "idle"
  /\ idx = 1
  /\ data = NoData
  /\ imported = 0
  /\ skipped = 0
  /\ exit = "none"
  /\ log = <<>>
  /\ mark = 0
  /\ conn = "none"
  /\ commits = 0
  /\ report = <<>>
  /\ call \in ExtractCalls

SpecExtract == InitExtract /\ [][ExtractScope]_vars

\* ------------------------------------ export_db_to_json.export_database
\* `float(x) if x else None` (lines 92, 97): NULL and a numeric zero both
\* give None.
ExportFloat(v) ==
  IF ~Truthy(v) THEN JNull ELSE IF v.k = "int" THEN JFloat(v.n * 100) ELSE v

RECURSIVE Ascending(_)
Ascending(ids) ==
  IF ids = {} THEN <<>>
  ELSE LET m == CHOOSE m \in ids : \A o \in ids : m <= o
       IN  <<m>> \o Ascending(ids \ {m})

\* The columns of the LEFT JOINed journal_metrics row, NULLs when the
\* journal has none.
ExportMetrics(st, jid) ==
  LET same(row) == row.journal_id = jid
      m == IF Some(st.journal_metrics, same) THEN First(st.journal_metrics, same)
           ELSE [f \in MetricFields |-> JNull]
  IN  [sjr |-> ExportFloat(m.sjr), sjr_quartile |-> m.sjr_quartile, h_index |-> m.h_index,
       total_docs_2024 |-> m.total_docs_2024, total_docs_3years |-> m.total_docs_3years,
       citations_per_doc |-> ExportFloat(m.citations_per_doc),
       total_citations_3years |-> m.total_citations_3years]

ExportScope(st, jid) ==
  LET same(row) == row.journal_id = jid
  IN  IF Some(st.journal_scopes, same) THEN First(st.journal_scopes, same).scope_text
      ELSE JNull

\* Every order in which a SELECT without ORDER BY may return the rows.
Orders(rows) ==
  LET n == Len(rows)
      places == {p \in [1..n -> 1..n] : \A a, b \in 1..n : p[a] = p[b] => a = b}
  IN  {[i \in 1..n |-> rows[p[i]]] : p \in places}

\* The rows of a link table that belong to the journal (WHERE journal_id =
\* %s).  None of the three SELECTs has an ORDER BY, so the database may
\* return them in any order: the result is one of these lists.
LinksOf(t, jid) ==
  LET same(row) == row.journal_id = jid
  IN  Orders(SelectSeq(t, same))

ExportIssns(st, jid) ==
  {[i \in DOMAIN rows |-> rows[i].issn] : rows \in LinksOf(st.journal_issn, jid)}

\* JOIN categories c ON jc.category_id = c.id
ExportCategories(st, jid) ==
  LET named(row) == LET is(c) == c.id = row.category_id
                    IN  First(st.categories, is).name
  IN  {[i \in DOMAIN rows |->
          [wellformed |-> TRUE, name |-> named(rows[i]), quartile |-> rows[i].quartile]] :
       rows \in LinksOf(st.journal_categories, jid)}

ExportAreas(st, jid) ==
  LET named(row) == LET is(a) == a.id = row.area_id
                    IN  First(st.subject_areas, is).name
  IN  {[i \in DOMAIN rows |-> named(rows[i])] : rows \in LinksOf(st.journal_areas, jid)}

\* One journal of the file (lines 59-104): one entry for each order the
\* three link SELECTs may return.
ExportJournal(st, jid) ==
  LET is(row) == row.id = jid
      j == First(st.journals, is)
  IN  {[id |-> j.id, source_id |-> j.source_id, title |-> j.title,
        publisher |-> j.publisher, country |-> j.country, open_access |-> j.open_access,
        coverage |-> j.coverage, scimago_rank |-> j.scimago_rank,
        scope_text |-> ExportScope(st, jid), metrics |-> ExportMetrics(st, jid),
        issns |-> il, categories |-> cl, areas |-> al] :
       il \in ExportIssns(st, jid), cl \in ExportCategories(st, jid),
       al \in ExportAreas(st, jid)}

\* SELECT id, name FROM <dictionary> ORDER BY name.  The names of the model
\* are told apart by their first letter.
NameRank(name) == Index(UpperCase, name[1])

RECURSIVE ByName(_)
ByName(rows) ==
  IF rows = {} THEN <<>>
  ELSE LET r == CHOOSE r \in rows : \A o \in rows : NameRank(r.name) <= NameRank(o.name)
       IN  <<[id |-> r.id, name |-> r.name]>> \o ByName(rows \ {r})

\* The files export_database may write: journals ORDER BY id, each with its
\* links in an order the database chose, then the two dictionaries.
export_database(st) ==
  LET ids == Ascending({row.id : row \in Range(st.journals)})
      entries == UNION {ExportJournal(st, ids[i]) : i \in DOMAIN ids}
      lists == {js \in [DOMAIN ids -> entries] :
                  \A i \in DOMAIN ids : js[i] \in ExportJournal(st, ids[i])}
  IN  {[journals |-> js,
        subject_areas |-> ByName(Range(st.subject_areas)),
        categories |-> ByName(Range(st.categories))] : js \in lists}

\* ---------------------------------------- export, then import_from_json
\* Stores as the ASM importer leaves them after up to two records.
RestoreRecords ==
  { AsmBase,
    AsmRecordOf(S("s2"), S("T2"), S("Y"), AsmMetricsOther, IssnBC, CatsC2, AreasN),
    AsmRecordOf(S("s3"), S("T1"), JNull,
                [AsmMetricsOther EXCEPT !.sjr = JStr(<<"0">>), !.h_index = JStr(<<"0">>)],
                IssnAB, CatsCD, JNull) }

RECURSIVE AsmStore(_, _)
AsmStore(r, records) ==
  IF records = <<>> THEN r
  ELSE LET n == AsmTryBody(r.st, r.sq, Head(records))
       IN  AsmStore(Ok(n.st, n.sq), Tail(records))

RestoreStores ==
  { AsmStore(Ok(EmptyTables, EmptySeqs), records) :
      records \in UNION { [1..n -> RestoreRecords] : n \in 0..2 } }

\* What the store to restore into holds beforehand.
PriorStores ==
  { Ok(EmptyTables, EmptySeqs),
    AsmStore(Ok(EmptyTables, EmptySeqs),
             << AsmRecordOf(S("s1"), S("T2"), S("Y"), AsmMetricsNone, IssnBC, CatsC2, AreasN) >>) }

NoFile == [journals |-> <<>>, subject_areas |-> <<>>, categories |-> <<>>]

InitRestore ==
  /\ \E s \in RestoreStores, p \in PriorStores :
       /\ db = s.st
       /\ tx = s.st
       /\ seq = s.sq
       /\ call = [fn |-> "restore", stage |-> "stored", original |-> s.st,
                  prior |-> p, file |-> NoFile]
  /\ aborted = FALSE
  /\ pc = "idle"
  /\ idx = 1
  /\ data = NoData
  /\ imported = 0
  /\ skipped = 0
  /\ exit = "none"
  /\ log = <<>>
  /\ mark = 0
  /\ conn = "none"
  /\ commits = 0
  /\ report = <<>>

\* export_database: reads the store, writes the file.
ExportDatabase ==
  /\ call.fn = "restore"
  /\ call.stage = "stored"
  /\ \E file \in export_database(db) :
       call' = [call EXCEPT !.stage = "exported", !.file = file]
  /\ UNCHANGED <<db, tx, aborted, seq, pc, idx, data, imported, skipped, exit, log, mark,
                 conn, commits, report>>

\* The file is taken to the store that is to be restored.
TargetStore ==
  /\ call.fn = "restore"
  /\ call.stage = "exported"
  /\ call' = [call EXCEPT !.stage = "target"]
  /\ db' = call.prior.st
  /\ tx' = call.prior.st
  /\ seq' = call.prior.sq
  /\ UNCHANGED <<aborted, pc, idx, data, imported, skipped, exit, log, mark,
                 conn, commits, report>>

\* import_database on that file: its journals in file order.
RestoreStart ==
  /\ call.fn = "restore"
  /\ call.stage = "target"
  /\ exit = "none"
  /\ JsonStart([subject_areas |-> call.file.subject_areas,
                categories |-> call.file.categories])

RestoreRecord ==
  /\ call.fn = "restore"
  /\ Len(log) + 1 \in DOMAIN call.file.journals
  /\ JsonRecord(call.file.journals[Len(log) + 1])

RestoreFinish ==
  /\ call.fn = "restore"
  /\ Len(log) = Len(call.file.journals)
  /\ JsonFinish

RestoreNext ==
  \/ ExportDatabase
  \/ TargetStore
  \/ RestoreStart
  \/ JsonAreas
  \/ JsonCategories
  \/ RestoreRecord
  \/ RestoreFinish

SpecRestore == InitRestore /\ [][RestoreNext]_vars

\* ------------------- clean_scope_data.clean_journal_data, create_database.py
\* A journal of the scraped file is a record of values [k, s, n]; two more
\* kinds occur here: k = "absent" for a key the dict does not have, and
\* k = "text" for a string held as a TLA+ string (the scope).  A list is
\* k = "list" with the items in s, a boolean is k = "bool" with n 0 or 1.
JAbsent == [k |-> "absent", s |-> <<>>, n |-> 0]
JText(text) == [k |-> "text", s |-> text, n |-> 0]
JList(items) == [k |-> "list", s |-> items, n |-> 0]
JBool(b) == [k |-> "bool", s |-> <<>>, n |-> IF b THEN 1 ELSE 0]

\* dict.get(key, default)
Get(j, key, default) == IF j[key].k = "absent" THEN default ELSE j[key]

\* Lines 67-69: scope_raw and the extracted scope.
CleanScope(j) ==
  LET raw_scope == Get(j, "scope", JText(""))
  IN  [j EXCEPT !.scope_raw = raw_scope,
                !.scope = JText(IF raw_scope.k = "text"
                                THEN extract_scope_description(raw_scope.s).text
                                ELSE "")]

\* re.match(r'(.+?)\s*\((Q[1-4])\)', cat): the shortest non-empty start of
\* cat, free of newlines, after which optional whitespace and "(Qn)" follow;
\* nothing is required of what comes after the ")".
QuartileAt(s, p) ==
  /\ p + 3 <= Len(s)
  /\ s[p] = "(" /\ s[p + 1] = "Q" /\ IsQuartileTag(s[p + 2]) /\ s[p + 3] = ")"

CleanCategoryCuts(cat) ==
  {n \in 1..Len(cat) :
     /\ NoNewline(SubSeq(cat, 1, n))
     /\ QuartileAt(LStrip(SubSeq(cat, n + 1, Len(cat))), 1)}

\* Lines 78-85 for one stripped, non-empty entry.
CleanCategoryEntry(cat) ==
  IF CleanCategoryCuts(cat) # {}
  THEN LET n == CHOOSE n \in CleanCategoryCuts(cat) : \A m \in CleanCategoryCuts(cat) : n <= m
       IN  [name |-> Strip(SubSeq(cat, 1, n)),
            quartile |-> JStr(<<"Q", LStrip(SubSeq(cat, n + 1, Len(cat)))[3]>>)]
  ELSE [name |-> cat, quartile |-> JNull]

RECURSIVE CleanCategoryEntries(_)
CleanCategoryEntries(parts) ==
  IF parts = <<>> THEN <<>>
  ELSE <<CleanCategoryEntry(Head(parts))>> \o CleanCategoryEntries(Tail(parts))

\* Lines 72-86.
CleanCategories(j) ==
  IF Truthy(Get(j, "categories", JStr(<<>>)))
  THEN [j EXCEPT !.categories_parsed =
          JList(CleanCategoryEntries(StripNonEmpty(Split(j.categories.s, ";"))))]
  ELSE j

\* Lines 89-91.
CleanAreas(j) ==
  IF Truthy(Get(j, "areas", JStr(<<>>)))
  THEN [j EXCEPT !.areas_list = JList(StripNonEmpty(Split(j.areas.s, ";")))]
  ELSE j

\* Lines 94-96.
CleanIssn(j) ==
  IF Truthy(Get(j, "issn", JStr(<<>>)))
  THEN [j EXCEPT !.issn_list = JList(StripNonEmpty(Split(j.issn.s, ",")))]
  ELSE j

\* Lines 100-105 for one field: only a non-empty string is converted.
CleanNumber(val) ==
  IF val.k = "str" /\ val.s # <<>>
  THEN IF FloatSyntax(val.s) THEN JFloat(FloatOfStr(val.s)) ELSE JNull
  ELSE val

CleanNumbers(j) ==
  [j EXCEPT !.sjr = CleanNumber(@), !.citations_per_doc = CleanNumber(@),
            !.refs_per_doc = CleanNumber(@), !.female_percent = CleanNumber(@)]

\* The loop body of clean_journal_data (lines 66-105).
CleanJournal(j) == CleanNumbers(CleanIssn(CleanAreas(CleanCategories(CleanScope(j)))))

clean_journal_data(journals) == [i \in DOMAIN journals |-> CleanJournal(journals[i])]

WorldScientific == JStr(<<"World Scientific">>)

create_database_entry(journal) ==
  [id |-> Get(journal, "source_id", JNull),
   title |-> Get(journal, "title", JNull),
   issn |-> Get(journal, "issn_list", JList(<<>>)),
   publisher |-> WorldScientific,
   openAccess |-> Get(journal, "open_access", JBool(FALSE)),
   metrics |-> [sjr |-> Get(journal, "sjr", JNull),
                sjrQuartile |-> Get(journal, "sjr_quartile", JNull),
                hIndex |-> Get(journal, "h_index", JNull),
                totalDocs2024 |-> Get(journal, "total_docs_2024", JNull),
                totalDocs3Years |-> Get(journal, "total_docs_3years", JNull),
                citationsPerDoc |-> Get(journal, "citations_per_doc", JNull),
                totalCitations3Years |-> Get(journal, "total_citations_3years", JNull)],
   scope |-> Get(journal, "scope", JText("")),
   categories |-> Get(journal, "categories_parsed", JList(<<>>)),
   areas |-> Get(journal, "areas_list", JList(<<>>)),
   country |-> Get(journal, "country", JNull),
   coverage |-> Get(journal, "coverage", JNull),
   rank |-> Get(journal, "rank", JNull)]

\* The sort key of line 50: x.get("rank", 99999).  Every entry has the key
\* "rank" (line 37), so the default is never used and a missing rank is None.
RankKey(entry) == entry.rank

\* list.sort compares keys with <: integers compare, None does not compare
\* with anything (TypeError).  A list of fewer than two entries is not compared.
SortRaises(database) ==
  Len(database) >= 2 /\ \E i \in DOMAIN database : RankKey(database[i]).k # "int"

\* Stable insertion of an entry into a list sorted by key.
RECURSIVE InsertByRank(_, _)
InsertByRank(sorted, entry) ==
  IF sorted = <<>> THEN <<entry>>
  ELSE IF RankKey(entry).n < RankKey(Head(sorted)).n
  THEN <<entry>> \o sorted
  ELSE <<Head(sorted)>> \o InsertByRank(Tail(sorted), entry)

RECURSIVE SortByRank(_)
SortByRank(database) ==
  IF database = <<>> THEN <<>>
  ELSE InsertByRank(SortByRank(SubSeq(database, 1, Len(database) - 1)),
                    database[Len(database)])

\* The scraped file: journals with ranks, metrics as numbers or strings, and
\* keys that are missing or empty.
PipeBase ==
  [source_id |-> S("w1"), title |-> S("T1"), rank |-> JInt(2),
   scope |-> JText("Home Aims and Scope " \o NarrativeSpaced \o " Quartiles"),
   categories |-> CatsCD, areas |-> AreasMN, issn |-> IssnAB,
   sjr |-> JStr(<<"2", ".", "5">>), sjr_quartile |-> Q("1"), h_index |-> JInt(7),
   total_docs_2024 |-> JInt(3), total_docs_3years |-> JInt(9),
   citations_per_doc |-> JStr(<<"0", ".", "5">>), total_citations_3years |-> JInt(4),
   refs_per_doc |-> JStr(<<"a", "b", "c">>), female_percent |-> JAbsent,
   country |-> S("SG"), coverage |-> S("1990-2024"), open_access |-> JBool(TRUE),
   scope_raw |-> JAbsent, categories_parsed |-> JAbsent, areas_list |-> JAbsent,
   issn_list |-> JAbsent]

PipeJournals ==
  { PipeBase,
    [PipeBase EXCEPT !.source_id = S("w2"), !.rank = JInt(1), !.sjr = JFloat(100),
                     !.citations_per_doc = JStr(<<>>), !.categories = CatsCC,
                     !.scope = JText(Narrative37)],
    [PipeBase EXCEPT !.source_id = S("w3"), !.rank = JNull,
                     !.sjr = JStr(<<"a", "b", "c">>), !.scope = JNull,
                     !.areas = JStr(<<>>)],
    [PipeBase EXCEPT !.source_id = S("w4"), !.rank = JAbsent, !.sjr = JAbsent,
                     !.scope = JAbsent, !.categories = JAbsent, !.issn = JAbsent,
                     !.open_access = JAbsent],
    [PipeBase EXCEPT !.source_id = S("w5"), !.sjr = JStr(<<"-", "1", ".", "5">>),
                     !.h_index = JStr(<<"7">>)],
    [PipeBase EXCEPT !.source_id = S("w6"), !.rank = JInt(3), !.sjr = JStr(<<>>)] }

PipeFiles == UNION { [1..n -> PipeJournals] : n \in 0..MaxFile }

PipeCall(journals) ==
  [fn |-> "pipeline", stage |-> "scraped", journals |-> journals,
   entries |-> <<>>, raised |-> FALSE, output |-> <<>>]

InitPipeline ==
  /\ db = EmptyTables
  /\ tx = EmptyTables
  /\ aborted = FALSE
  /\ seq = EmptySeqs
  /\ pc = "idle"
  /\ idx = 1
  /\ data = NoData
  /\ imported = 0
  /\ skipped = 0
  /\ exit = "none"
  /\ log = <<>>
  /\ mark = 0
  /\ conn = "none"
  /\ commits = 0
  /\ report = <<>>
  /\ call \in {PipeCall(journals) : journals \in PipeFiles}

\* clean_scope_data.main: load the scraped file, clean it, save it.
CleanData ==
  /\ call.fn = "pipeline"
  /\ call.stage = "scraped"
  /\ call' = [call EXCEPT !.stage = "cleaned",
                          !.journals = clean_journal_data(call.journals)]
  /\ UNCHANGED <<db, tx, aborted, seq, pc, idx, data, imported, skipped, exit, log, mark,
                 conn, commits, report>>

\* create_database.main: load the cleaned file, build the entries (line 47),
\* sort them (line 50), write the output.  Nothing is written when the sort
\* raises.
CreateDatabase ==
  /\ call.fn = "pipeline"
  /\ call.stage = "cleaned"
  /\ LET database == [i \in DOMAIN call.journals |-> create_database_entry(call.journals[i])]
     IN  call' = [call EXCEPT !.stage = "database",
                              !.entries = database,
                              !.raised = SortRaises(database),
                              !.output = IF SortRaises(database) THEN <<>>
                                         ELSE SortByRank(database)]
  /\ UNCHANGED <<db, tx, aborted, seq, pc, idx, data, imported, skipped, exit, log, mark,
                 conn, commits, report>>

PipelineNext == CleanData \/ CreateDatabase

SpecPipeline == InitPipeline /\ [][PipelineNext]_vars

\* ------------------------------------------- the field parsers on their own
\* A category field is put together from at most MaxTokens pieces: name
\* characters, blanks and line breaks, quartile tags in and out of range, a
\* parenthesis that is part of a name, and the entry separator.
CategoryTokens ==
  { <<"a">>, <<" ">>, <<"\n">>, <<";">>, <<"(", "b", ")">>,
    <<"(", "Q", "1", ")">>, <<"(", "Q", "2", ")">>, <<"(", "Q", "5", ")">> }

RECURSIVE Flatten(_)
Flatten(parts) == IF parts = <<>> THEN <<>> ELSE Head(parts) \o Flatten(Tail(parts))

CategoryFields ==
  { Flatten(parts) : parts \in UNION { [1..n -> CategoryTokens] : n \in 0..MaxTokens } }

\* The same field handed to the importer's parse_categories and to the
\* category block of clean_journal_data (lines 72-86).
CategoryCall(field) ==
  [fn |-> "parse_categories", arg |-> field, done |-> FALSE,
   asm |-> <<>>, clean |-> JAbsent]

\* A number as it may be written in a file: a lead, integer digits, a
\* fractional separator, fractional digits, a trail.
NumberParts ==
  [lead : {<<>>, <<" ">>, <<"-">>},
   int : {<<>>, <<"0">>, <<"2">>, <<"1", "2">>},
   sep : {<<>>, <<".">>, <<",">>},
   frac : {<<>>, <<"0">>, <<"5">>, <<"2", "5">>},
   trail : {<<>>, <<" ">>, <<"a">>}]

NoParts == [lead |-> <<>>, int |-> <<>>, sep |-> <<>>, frac |-> <<>>, trail |-> <<>>]

Spelling(parts) == parts.lead \o parts.int \o parts.sep \o parts.frac \o parts.trail

\* Values that are not strings: JSON null, numbers and an object.
NumberValues == {JNull, JInt(0), JInt(7), JInt(-3), JFloat(0), JFloat(250), JObj}

NumberCall(fn, arg, parts) ==
  [fn |-> fn, arg |-> arg, parts |-> parts, done |-> FALSE, res |-> JNull]

NumberCalls ==
  { NumberCall(fn, JStr(Spelling(parts)), parts) :
      fn \in {"safe_float", "safe_int"}, parts \in NumberParts }
  \cup { NumberCall(fn, val, NoParts) : fn \in {"safe_float", "safe_int"}, val \in NumberValues }

\* ------------------------------------------ scrape_bmj_scopes.parse_csv
\* A row as csv.DictReader hands it over, keyed here by the journal key its
\* column feeds: a cell is a string, the None that DictReader puts where the
\* line has fewer cells than the header, or absent when the header has no
\* such column.
IntColumns ==
  {"h_index", "total_docs_2024", "total_docs_3years", "total_refs",
   "total_citations_3years", "citable_docs_3years"}

QuotedColumns == {"title", "issn", "categories", "areas"}

CommaColumns == {"sjr", "citations_per_doc", "refs_per_doc", "female_percent"}

PlainColumns ==
  {"source_id", "type", "publisher", "sjr_quartile", "country", "region", "coverage"}

CsvColumns ==
  {"rank", "open_access"} \cup IntColumns \cup QuotedColumns \cup CommaColumns
    \cup PlainColumns

\* str.strip('"')
RECURSIVE StripQuotes(_)
StripQuotes(s) ==
  IF s # <<>> /\ Head(s) = "\"" THEN StripQuotes(Tail(s))
  ELSE IF s # <<>> /\ s[Len(s)] = "\"" THEN StripQuotes(SubSeq(s, 1, Len(s) - 1))
  ELSE s

\* str.replace(',', '.')
ReplaceComma(s) == [i \in DOMAIN s |-> IF s[i] = "," THEN "." ELSE s[i]]

\* `x or 0`
OrZero(v) == IF Truthy(v) THEN v ELSE JInt(0)

\* int(v) raises TypeError for None and ValueError for a string that is not
\* an integer; int(0) is 0.
IntRaises(v) == v.k = "null" \/ (v.k = "str" /\ ~IntSyntax(v.s))

IntOf(v) == IF v.k = "str" THEN JInt(IntOfStr(v.s)) ELSE v

\* A method call on the cell (strip, replace) raises AttributeError on None.
TextRaises(v) == v.k = "null"

\* Building the dict of lines 31-56 raises for this row.
CsvRowRaises(row) ==
  \/ IntRaises(Get(row, "rank", JInt(0)))
  \/ \E c \in IntColumns : IntRaises(OrZero(Get(row, c, JInt(0))))
  \/ \E c \in QuotedColumns \cup CommaColumns : TextRaises(Get(row, c, JStr(<<>>)))

\* Lines 31-56, for a row that does not raise.
CsvJournal(row) ==
  [c \in CsvColumns \cup {"scope"} |->
     CASE c = "rank" -> IntOf(Get(row, c, JInt(0)))
       [] c \in IntColumns -> IntOf(OrZero(Get(row, c, JInt(0))))
       [] c \in QuotedColumns -> JStr(StripQuotes(Get(row, c, JStr(<<>>)).s))
       [] c \in CommaColumns -> JStr(ReplaceComma(Get(row, c, JStr(<<>>)).s))
       [] c = "open_access" -> JBool(Get(row, c, JStr(<<>>)) = JStr(<<"Y", "e", "s">>))
       [] c = "scope" -> JNull
       [] OTHER -> Get(row, c, JStr(<<>>))]

\* parse_csv: the journals of all rows, or the exception of the first row
\* that raises (the function then returns nothing).
parse_csv(rows) ==
  IF \E i \in DOMAIN rows : CsvRowRaises(rows[i])
  THEN [raised |-> TRUE, journals |-> <<>>]
  ELSE [raised |-> FALSE, journals |-> [i \in DOMAIN rows |-> CsvJournal(rows[i])]]

CsvRowBase ==
  [c \in CsvColumns |->
     CASE c = "rank" -> JStr(<<"1">>)
       [] c \in IntColumns -> JStr(<<"4">>)
       [] c = "title" -> JStr(<<"\"", "T", ",", "U", "\"">>)
       [] c = "sjr" -> JStr(<<"2", ",", "5">>)
       [] c = "open_access" -> JStr(<<"Y", "e", "s">>)
       [] OTHER -> JStr(<<"x">>)]

\* A line that ends after its Type cell: every later column is None.
CsvRowCut ==
  [c \in CsvColumns |->
     IF c \in {"rank", "source_id", "title", "type"} THEN CsvRowBase[c] ELSE JNull]

CsvRows ==
  { CsvRowBase,
    [CsvRowBase EXCEPT !["h_index"] = JStr(<<>>), !["total_docs_2024"] = JStr(<<>>),
                       !["open_access"] = JStr(<<"N", "o">>)],
    [CsvRowBase EXCEPT !["rank"] = JStr(<<>>)],
    [CsvRowBase EXCEPT !["h_index"] = JStr(<<"x">>)],
    [CsvRowBase EXCEPT !["total_citations_3years"] = JStr(<<"2", ".", "5">>),
                       !["h_index"] = JStr(<<"0">>)],
    CsvRowCut }

\* The header of the file: complete, or without the Rank and H index columns.
CsvHeaders == { {}, {"rank", "h_index"} }

Under(missing, row) == [c \in CsvColumns |-> IF c \in missing THEN JAbsent ELSE row[c]]

CsvFiles ==
  { [i \in DOMAIN rows |-> Under(missing, rows[i])] :
      missing \in CsvHeaders, rows \in UNION { [1..n -> CsvRows] : n \in 0..MaxFile } }

CsvCall(rows) ==
  [fn |-> "parse_csv", arg |-> rows, done |-> FALSE,
   res |-> [raised |-> FALSE, journals |-> <<>>]]

ParseCalls ==
  { CategoryCall(field) : field \in CategoryFields } \cup NumberCalls
    \cup { CsvCall(rows) : rows \in CsvFiles }

InitParse ==
  /\ db = EmptyTables
  /\ tx = EmptyTables
  /\ aborted = FALSE
  /\ seq = EmptySeqs
  /\ pc = "idle"
  /\ idx = 1
  /\ data = NoData
  /\ imported = 0
  /\ skipped = 0
  /\ exit = "none"
  /\ log = <<>>
  /\ mark = 0
  /\ conn = "none"
  /\ commits = 0
  /\ report = <<>>
  /\ call \in ParseCalls

ParseCategories ==
  /\ call.fn = "parse_categories"
  /\ ~call.done
  /\ call' = [call EXCEPT
                !.done = TRUE,
                !.asm = parse_categories(JStr(call.arg)),
                !.clean = CleanCategories([PipeBase EXCEPT !.categories = JStr(call.arg)])
                            .categories_parsed]
  /\ UNCHANGED <<db, tx, aborted, seq, pc, idx, data, imported, skipped, exit, log, mark,
                 conn, commits, report>>

SafeFloat ==
  /\ call.fn = "safe_float"
  /\ ~call.done
  /\ call' = [call EXCEPT !.done = TRUE, !.res = safe_float(call.arg)]
  /\ UNCHANGED <<db, tx, aborted, seq, pc, idx, data, imported, skipped, exit, log, mark,
                 conn, commits, report>>

SafeInt ==
  /\ call.fn = "safe_int"
  /\ ~call.done
  /\ call' = [call EXCEPT !.done = TRUE, !.res = safe_int(call.arg)]
  /\ UNCHANGED <<db, tx, aborted, seq, pc, idx, data, imported, skipped, exit, log, mark,
                 conn, commits, report>>

ParseCsv ==
  /\ call.fn = "parse_csv"
  /\ ~call.done
  /\ call' = [call EXCEPT !.done = TRUE, !.res = parse_csv(call.arg)]
  /\ UNCHANGED <<db, tx, aborted, seq, pc, idx, data, imported, skipped, exit, log, mark,
                 conn, commits, report>>

ParseNext == ParseCategories \/ SafeFloat \/ SafeInt \/ ParseCsv

SpecParse == InitParse /\ [][ParseNext]_vars

\* ------------------------------------------------------------ properties
Last(l) == l[Len(l)]

\* The step just taken processed one record.
RecordStep == Len(log') = Len(log) + 1

RowsWhere(t, P(_)) == {i \in DOMAIN t : P(t[i])}

JournalIds(st, sid) == {st.journals[i].id : i \in {k \in DOMAIN st.journals : st.journals[k].source_id = sid}}

IssnsOf(st, sid) ==
  {st.journal_issn[i].issn :
     i \in {k \in DOMAIN st.journal_issn : st.journal_issn[k].journal_id \in JournalIds(st, sid)}}

NoRepeatedRow(t) == \A i, k \in DOMAIN t : t[i] = t[k] => i = k

\* C1: importing the same ASM record (non-empty source id) twice in a row
\* leaves the committed tables as they were after the first import, with one
\* journals row for the source id, one scope row when the record has scope
\* text, one metrics row and no repeated issn / category / area link.
C1_AsmImportIdempotent ==
  [][ ( /\ RecordStep
        /\ Len(log) >= 1
        /\ Last(log).op = "asm" /\ Last(log').op = "asm"
        /\ Last(log').rec = Last(log).rec
        /\ Truthy(Last(log).rec.source_id) )
      => /\ db' = db
         /\ Last(log').result = Last(log).result
         /\ Last(log').result = "committed" =>
              LET sid == Last(log).rec.source_id
                  ids == JournalIds(db', sid)
              IN  /\ Cardinality(RowsWhere(db'.journals, LAMBDA r : r.source_id = sid)) = 1
                  /\ Cardinality(RowsWhere(db'.journal_metrics, LAMBDA r : r.journal_id \in ids)) = 1
                  /\ Cardinality(RowsWhere(db'.journal_scopes, LAMBDA r : r.journal_id \in ids))
                       = IF Truthy(Last(log).rec.scope) THEN 1
                         ELSE Cardinality(RowsWhere(db.journal_scopes, LAMBDA r : r.journal_id \in ids))
                  /\ \A i, k \in DOMAIN db'.journal_issn :
                       ( /\ db'.journal_issn[i].journal_id = db'.journal_issn[k].journal_id
                         /\ db'.journal_issn[i].issn = db'.journal_issn[k].issn ) => i = k
                  /\ \A i, k \in DOMAIN db'.journal_categories :
                       ( /\ db'.journal_categories[i].journal_id = db'.journal_categories[k].journal_id
                         /\ db'.journal_categories[i].category_id = db'.journal_categories[k].category_id )
                       => i = k
                  /\ NoRepeatedRow(db'.journal_areas) ]_vars

C1_Witness ==
  /\ Len(log) >= 2
  /\ Last(log).op = "asm" /\ Last(log).result = "committed"
  /\ log[Len(log) - 1] = Last(log)
  /\ Truthy(Last(log).rec.scope)
  /\ Len(db.journals) = 1 /\ Len(db.journal_scopes) = 1
  /\ Len(db.journal_issn) = 2 /\ Len(db.journal_categories) = 2

\* Indices of the committed log entries of script `op` for source id `sid`.
CommittedFor(op, sid) ==
  {i \in DOMAIN log : log[i].op = op /\ log[i].result = "committed" /\ log[i].rec.source_id = sid}

\* The most recent non-null value of field f supplied by the entries `es`.
LastNonNull(es, f) ==
  LET given == {i \in es : log[i].rec[f].k # "null"}
  IN  IF given = {} THEN JNull ELSE log[Max(given)].rec[f]

BmjMetricFields == {"sjr", "sjr_quartile", "h_index"}

\* C2: BMJ fill-forward.  After any sequence of successful
\* insert_journal_to_db calls for a source id, the stored sjr, sjr_quartile
\* and h_index are the most recent non-null values supplied (null only when
\* none was), and a call supplying null for a metric leaves a stored non-null
\* value as it is.
C2_State ==
  \A b \in Range(BMJ_JOURNALS) :
    LET es == CommittedFor("bmj", b.source_id)
        ids == JournalIds(db, b.source_id)
        rows == RowsWhere(db.journal_metrics, LAMBDA r : r.journal_id \in ids)
    IN  es # {} =>
          /\ Cardinality(rows) = 1
          /\ \A i \in rows : \A f \in BmjMetricFields :
               db.journal_metrics[i][f] = LastNonNull(es, f)

C2_Step ==
  ( RecordStep /\ Last(log').op = "bmj" ) =>
    LET e == Last(log')
        ids == JournalIds(db, e.rec.source_id)
    IN  \A i \in DOMAIN db.journal_metrics : \A f \in BmjMetricFields :
          ( /\ db.journal_metrics[i].journal_id \in ids
            /\ db.journal_metrics[i][f].k # "null"
            /\ e.rec[f].k = "null" )
          => /\ i \in DOMAIN db'.journal_metrics
             /\ db'.journal_metrics[i][f] = db.journal_metrics[i][f]

\* C2: the stored BMJ metrics are the most recent non-null values supplied,
\* in every state and across every insert_journal_to_db call.
C2_BmjFillForward == [](C2_State) /\ [][C2_Step]_vars

C2_Witness ==
  /\ Len(log) = 3
  /\ log[1].op = "bmj" /\ log[1].result = "committed" /\ log[1].rec.sjr = JFloat(250)
  /\ log[3].op = "bmj" /\ log[3].result = "committed" /\ log[3].rec.sjr = JNull
  /\ log[3].rec.source_id = log[1].rec.source_id
  /\ \E i \in DOMAIN db.journal_metrics : db.journal_metrics[i].sjr = JFloat(250)

\* C3: ASM fill-forward.  Importing a record in which a metric is null or
\* empty, for a journal whose stored value of that metric is non-null, leaves
\* the stored value unchanged.
C3_AsmFillForward ==
  [][ ( RecordStep /\ Last(log').op = "asm" ) =>
      LET e == Last(log')
          ids == JournalIds(db, e.rec.source_id)
      IN  \A i \in DOMAIN db.journal_metrics : \A f \in MetricFields :
            ( /\ db.journal_metrics[i].journal_id \in ids
              /\ db.journal_metrics[i][f].k # "null"
              /\ e.rec[f].k \in {"null", "str"} /\ ~Truthy(e.rec[f]) )
            => /\ i \in DOMAIN db'.journal_metrics
               /\ db'.journal_metrics[i][f] = db.journal_metrics[i][f] ]_vars

\* C4: per-record atomicity of the ASM importer.  When a statement of a
\* record's upsert fails, the committed store is what it was before the
\* record, the connection holds no uncommitted write of the record that a
\* later commit could publish, and the loop goes on with the next record.
C4_AsmRecordAtomic ==
  [][ ( RecordStep /\ Last(log').op = "asm" /\ Last(log').result = "failed" )
      => /\ db' = db
         /\ tx' = db
         /\ ~aborted'
         /\ pc' = "asm" ]_vars

C4_Witness ==
  /\ Len(log) >= 2
  /\ Last(log).op = "asm" /\ Last(log).result = "failed"
  /\ Last(log).at = "parse_categories"
  /\ Last(log).rec.issn = IssnBC
  /\ db.journals # <<>>
  /\ tx = db
  /\ \A i \in DOMAIN db.journal_issn : db.journal_issn[i].issn # <<"c">>

\* C7: journals rows are keyed by source id.  At most one row per source id;
\* a committed record whose source id is stored keeps the row's id and sets
\* title, publisher, country and open_access to the incoming values without
\* adding a row; a committed record with an unseen source id adds exactly
\* one row.
C7_State ==
  \A i, k \in DOMAIN db.journals :
    db.journals[i].source_id = db.journals[k].source_id => i = k

C7_Step ==
  ( RecordStep /\ Last(log').result = "committed" ) =>
    LET e == Last(log')
        sid == e.rec.source_id
        publisher == IF e.op = "asm" THEN AsmPublisher ELSE e.rec.publisher
        now == RowsWhere(db'.journals, LAMBDA r : r.source_id = sid)
    IN  /\ Cardinality(now) = 1
        /\ \A i \in now :
             /\ db'.journals[i].title = e.rec.title
             /\ db'.journals[i].publisher = publisher
             /\ db'.journals[i].country = e.rec.country
             /\ db'.journals[i].open_access = e.rec.open_access
        /\ IF JournalIds(db, sid) # {}
           THEN /\ Len(db'.journals) = Len(db.journals)
                /\ JournalIds(db', sid) = JournalIds(db, sid)
           ELSE Len(db'.journals) = Len(db.journals) + 1
        /\ \A i \in DOMAIN db.journals :
             db.journals[i].source_id # sid => db'.journals[i] = db.journals[i]

\* C7: one journals row per source id, in every state, and every committed
\* record updates its row in place or adds exactly one row.
C7_JournalKeyedBySourceId == [](C7_State) /\ [][C7_Step]_vars

C7_Witness ==
  /\ Len(log) >= 2
  /\ log[Len(log) - 1].op = "asm" /\ log[Len(log) - 1].result = "committed"
  /\ Last(log).op = "bmj" /\ Last(log).result = "committed"
  /\ Last(log).rec.source_id = log[Len(log) - 1].rec.source_id
  /\ Len(db.journals) = 1
  /\ db.journals[1].title = S("B1") /\ db.journals[1].publisher = BmjPublisher

\* C8: ISSN reconciliation of the ASM importer is additive only.  After a
\* committed import the journal's stored ISSN set is the earlier set united
\* with the record's parsed ISSNs; no step removes a stored ISSN and no
\* (journal, issn) pair is stored twice.
C8_State ==
  \A i, k \in DOMAIN db.journal_issn :
    ( /\ db.journal_issn[i].journal_id = db.journal_issn[k].journal_id
      /\ db.journal_issn[i].issn = db.journal_issn[k].issn ) => i = k

C8_Step ==
  /\ \A i \in DOMAIN db.journals :
       IssnsOf(db, db.journals[i].source_id) \subseteq IssnsOf(db', db.journals[i].source_id)
  /\ ( RecordStep /\ Last(log').op = "asm" /\ Last(log').result = "committed" ) =>
       LET e == Last(log')
       IN  IssnsOf(db', e.rec.source_id)
             = IssnsOf(db, e.rec.source_id) \cup Range(parse_issn(e.rec.issn))

\* C8: no (journal, issn) pair is stored twice, in every state, and every
\* step only adds the record's parsed ISSNs to the stored set.
C8_IssnAdditiveOnly == [](C8_State) /\ [][C8_Step]_vars

C8_Witness ==
  /\ Len(log) >= 2
  /\ Last(log).op = "asm" /\ Last(log).result = "committed"
  /\ Last(log).rec.issn = IssnBC
  /\ IssnsOf(db, Last(log).rec.source_id) = {<<"a">>, <<"b">>, <<"c">>}
  /\ Len(db.journal_issn) = 3

\* The quartile a record gives for a category name: that of its last entry
\* with this name.
QuartileIn(rec, name) ==
  LET cats == parse_categories(rec.categories)
      hits == {i \in DOMAIN cats : cats[i].name = name}
  IN  cats[Max(hits)].quartile

Names(rec) == {c.name : c \in Range(parse_categories(rec.categories))}

\* C9: shared category dictionary of the ASM importer.  One categories row
\* per distinct name; for every journal and category exactly one link row
\* when a committed record of the journal names the category (none
\* otherwise), carrying the quartile of the most recent such record.
C9_SharedCategoryDictionary ==
  /\ \A i, k \in DOMAIN db.categories :
       db.categories[i].name = db.categories[k].name => i = k
  /\ \A e \in {log[i] : i \in {k \in DOMAIN log : log[k].result = "committed"}} :
       \A name \in Names(e.rec) : \E c \in Range(db.categories) : c.name = name
  /\ \A jr \in Range(db.journals) : \A c \in Range(db.categories) :
       LET es == {i \in CommittedFor("asm", jr.source_id) : c.name \in Names(log[i].rec)}
           links == RowsWhere(db.journal_categories,
                              LAMBDA r : r.journal_id = jr.id /\ r.category_id = c.id)
       IN  IF es = {} THEN links = {}
           ELSE /\ Cardinality(links) = 1
                /\ \A i \in links :
                     db.journal_categories[i].quartile = QuartileIn(log[Max(es)].rec, c.name)

C9_Witness ==
  /\ Cardinality({i \in DOMAIN db.categories : db.categories[i].name = <<"C">>}) = 1
  /\ Len(db.journals) = 2
  /\ \E i, k \in DOMAIN db.journal_categories :
       /\ db.journal_categories[i].journal_id # db.journal_categories[k].journal_id
       /\ db.journal_categories[i].category_id = db.journal_categories[k].category_id
       /\ db.journal_categories[i].quartile = Q("1")
       /\ db.journal_categories[k].quartile = Q("2")
  /\ Len(log) = 3 /\ Last(log).result = "committed"
  /\ log[1].rec.categories = CatsCD
  /\ log[2].rec.categories = CatsC2

\* The log entries of the run in progress (or just finished).
ThisRun == {i \in DOMAIN log : i > mark}

\* The restore run has just ended (normally or not).
JsonRunEnds == pc = "json_journals" /\ pc' = "idle"

\* The tables obtained from `st` by the writes of the run's imported records
\* alone, from log position i on.
RECURSIVE ReplayImported(_, _)
ReplayImported(st, i) ==
  IF i > Len(log) THEN st
  ELSE IF log[i].result = "imported"
       THEN ReplayImported(JsonTryBody(st, seq, FALSE, log[i].rec).st, i + 1)
       ELSE ReplayImported(st, i + 1)

\* C5: no half-committed record in the JSON restore.  At the end of a run
\* every record has either all of its writes committed or none: the
\* committed tables are those produced by the fully processed records alone.
C5_NoHalfCommittedRecord ==
  [][ ( JsonRunEnds /\ exit' = "ok" ) => db' = ReplayImported(db, mark + 1) ]_vars

\* A record of the run that is valid by itself: well-formed category
\* entries, and a source id no other record of the run uses under another id.
JsonValid(i) ==
  /\ \A c \in Range(log[i].rec.categories) : c.wellformed
  /\ \A k \in ThisRun :
       log[k].rec.source_id = log[i].rec.source_id => log[k].rec.id = log[i].rec.id

\* C6: a per-record store error never aborts the JSON restore.  When a
\* record fails with a store error, the run still reaches its final commit
\* and every later valid record of the file is committed.
C6_StoreErrorDoesNotAbortBatch ==
  [][ ( JsonRunEnds /\ \E i \in ThisRun : log[i].err = "db" ) =>
      /\ exit' = "ok"
      /\ \A i \in ThisRun : \A k \in ThisRun :
           ( log[i].err = "db" /\ k > i /\ JsonValid(k) ) =>
             \E row \in Range(db'.journals) :
               row.id = log[k].rec.id /\ row.title = log[k].rec.title ]_vars

\* C10: resolve-or-create in the JSON restore.  After a journal record is
\* imported, every category and every area it names has its dictionary row
\* and the journal is linked to it.
C10_JsonResolveOrCreate ==
  [][ ( RecordStep /\ Last(log').op = "json" /\ Last(log').result = "imported" ) =>
      LET j == Last(log').rec
      IN  /\ \A cat \in Range(j.categories) :
               \E c \in Range(tx'.categories) :
                 /\ c.name = cat.name
                 /\ \E l \in Range(tx'.journal_categories) :
                      l.journal_id = j.id /\ l.category_id = c.id
          /\ \A name \in Range(j.areas) :
               \E a \in Range(tx'.subject_areas) :
                 /\ a.name = name
                 /\ \E l \in Range(tx'.journal_areas) :
                      l.journal_id = j.id /\ l.area_id = a.id ]_vars

\* The committed ASM / BMJ records for a source id that carried scope text.
ScopedFor(sid) ==
  {i \in DOMAIN log : /\ log[i].op \in {"asm", "bmj"}
                      /\ log[i].result = "committed"
                      /\ log[i].rec.source_id = sid
                      /\ Truthy(log[i].rec.scope)}

C11_State ==
  \A k \in DOMAIN db.journals :
    LET es == ScopedFor(db.journals[k].source_id)
        rows == RowsWhere(db.journal_scopes, LAMBDA r : r.journal_id = db.journals[k].id)
    IN  IF es = {}
        THEN rows = {}
        ELSE /\ Cardinality(rows) = 1
             /\ \A i \in rows : db.journal_scopes[i].scope_text = log[Max(es)].rec.scope

C11_Step ==
  ( /\ RecordStep
    /\ Last(log').op \in {"asm", "bmj"}
    /\ ~Truthy(Last(log').rec.scope) )
  => db'.journal_scopes = db.journal_scopes

\* C11: scope upsert.  After any sequence of committed ASM / BMJ records for
\* one journal there is at most one journal_scopes row for it, holding exactly
\* the scope of the most recent record that carried non-empty scope text
\* (replaced, never concatenated); a record with empty or absent scope leaves
\* the scope rows as they are.
C11_ScopeUpsert == [](C11_State) /\ [][C11_Step]_vars

\* Scope X imported by the ASM importer, then a committed ASM record without
\* scope, then scope Y written by the BMJ scraper: the one row holds Y.
C11_Witness ==
  /\ Len(log) = 3
  /\ log[1].op = "asm" /\ log[1].result = "committed" /\ log[1].rec.scope = S("X")
  /\ log[2].op = "asm" /\ log[2].result = "committed" /\ ~Truthy(log[2].rec.scope)
  /\ log[3].op = "bmj" /\ log[3].result = "committed" /\ log[3].rec.scope = S("Y")
  /\ log[2].rec.source_id = log[1].rec.source_id
  /\ log[3].rec.source_id = log[1].rec.source_id
  /\ Len(db.journal_scopes) = 1
  /\ db.journal_scopes[1].scope_text = S("Y")

\* C12: in an ASM import run every record that is not imported, a record
\* skipped for its missing or empty source id included, adds its own line to
\* the run's report, and the line names the record.
C12_EveryNonImportedReported ==
  [][ ( /\ RecordStep
        /\ Last(log').op = "asm"
        /\ Last(log').result # "committed" )
      => /\ Len(report') = Len(report) + 1
         /\ Last(report').op = "asm"
         /\ Last(report').title = Last(log').rec.title ]_vars

\* C13: the store connection a run opened is closed whenever the run has
\* ended, whichever way it ended.
C13_ConnectionClosedOnExit == pc = "idle" => conn # "open"

\* C14: in a BMJ scraper run a connection failure is fatal.  When the store
\* cannot be reached the run ends at once and writes nothing; when a journal's
\* source page cannot be reached nothing is written for that journal and no
\* further journal is processed in the run.
C14_ConnectionFailureIsFatal ==
  [][ /\ ( pc = "idle" /\ exit' = "noconn" )
           => ( pc' = "idle" /\ db' = db /\ log' = log )
      /\ ( RecordStep /\ Last(log').op = "bmj" )
           => /\ ~Last(log').src.reachable
                   => ( db' = db /\ Last(log').result # "committed" )
              /\ ~( /\ Len(log) > mark
                    /\ Last(log).op = "bmj"
                    /\ ~Last(log).src.reachable ) ]_vars

\* The records the current run has processed, oldest first.
RunLog == SubSeq(log, mark + 1, Len(log))

Outcomes(l, results) == Cardinality({i \in DOMAIN l : l[i].result \in results})

C15_State ==
  pc = "asm" \/ exit = "ok" =>
    /\ Len(RunLog) = idx - 1
    /\ Len(RunLog) <= Len(data.journals)
    /\ \A k \in DOMAIN RunLog :
         /\ RunLog[k].rec = data.journals[k]
         /\ RunLog[k].result \in {"committed", "skipped", "failed"}
    /\ imported = Outcomes(RunLog, {"committed"})
    /\ skipped = Outcomes(RunLog, {"skipped", "failed"})
    /\ commits = imported
    /\ exit = "ok" => imported + skipped = Len(data.journals)

C15_Step ==
  RecordStep =>
    /\ idx' = idx + 1
    /\ SubSeq(log', 1, Len(log)) = log
    /\ Last(log').rec = data.journals[idx]
    /\ imported' + skipped' = imported + skipped + 1
    /\ commits' - commits = imported' - imported

\* C15: per-record state machine of the ASM importer.  The run processes the
\* records of its input file once each and in file order; every record ends
\* as committed (counted in imported) or as skipped / failed (counted in
\* skipped), nothing processed is processed again; when the loop has ended
\* imported + skipped is the number of records of the file, and the number of
\* commits equals imported throughout.
C15_RecordStateMachine == [](C15_State) /\ [][C15_Step]_vars

\* A finished run over a three-record file with one record of each outcome.
C15_Witness ==
  /\ pc = "idle" /\ exit = "ok"
  /\ Len(data.journals) = 3
  /\ Len(RunLog) = 3
  /\ {RunLog[k].result : k \in 1..3} = {"committed", "skipped", "failed"}
  /\ imported = 1 /\ skipped = 2 /\ commits = 1

\* A finished call of extract_scope_description.
ScopeDone == call.fn = "extract_scope_description" /\ call.done

\* C16: the markers are tried in the order 'Aims and Scope', 'Scope',
\* 'About' whatever their places in the text: when 'Aims and Scope' occurs
\* and the text after it gives more than 50 characters once cut and
\* collapsed, the result is that text.
C16_AimsAndScopeFirst ==
  ( /\ ScopeDone
    /\ Contains(call.raw, "Aims and Scope")
    /\ Len(Candidate(call.raw, "Aims and Scope")) > 50 )
  => call.res.text = Candidate(call.raw, "Aims and Scope")

\* A page text of the form <prefix> Scope <narrative> Join the conversation
\* <suffix>, with no 'Scope' in the prefix and no end marker in the narrative.
ScopeExampleForm(doc) ==
  /\ doc.marker = "Scope"
  /\ doc.end = "Join the conversation"
  /\ doc.narrative # ""
  /\ ~Contains(doc.prefix, "Scope")
  /\ \A e \in Range(end_markers) : ~Contains(doc.narrative, e)

Cleaned(text) == TextStrip(CollapseWhitespace(text))

\* C17 as stated: for every text of that form the result is the narrative,
\* whitespace collapsed and trimmed, the spec's 37-character example included.
C17_NarrativeReturned ==
  ( ScopeDone /\ ScopeExampleForm(call.doc) )
  => call.res.text = Cleaned(call.doc.narrative)

\* C17, amended: for a text of that form the result is the narrative,
\* whitespace collapsed and trimmed, when the cleaned narrative is longer than
\* 50 characters; a narrative of 50 characters or fewer is rejected for the
\* 'Scope' marker and the result comes from a later marker or the sentences.
C17_LongNarrativeReturned ==
  ( ScopeDone /\ ScopeExampleForm(call.doc) )
  => IF Len(Cleaned(call.doc.narrative)) > 50
     THEN call.res.path = "marker" /\ call.res.text = Cleaned(call.doc.narrative)
     ELSE call.res.marker # "Scope"

C17_Witness ==
  /\ ScopeDone
  /\ ScopeExampleForm(call.doc)
  /\ call.doc.prefix = "..." /\ call.doc.suffix = "..."
  /\ call.doc.narrative = NarrativeSpaced
  /\ call.res.text =
       "The journal covers cardiology, stroke and vascular medicine for all clinicians."

\* C18: minimum-content threshold.  The marker path returns a candidate only
\* when it is longer than 50 characters; a marker whose candidate has 50
\* characters or fewer is passed over for the next listed marker, and the
\* result comes from elsewhere only when every marker present was rejected.
C18_Threshold ==
  ScopeDone =>
    /\ call.res.path = "marker" =>
         /\ Len(call.res.text) > 50
         /\ \E k \in DOMAIN scope_markers :
              /\ scope_markers[k] = call.res.marker
              /\ Contains(call.raw, scope_markers[k])
              /\ call.res.text = Candidate(call.raw, scope_markers[k])
              /\ \A m \in 1..(k - 1) :
                   Contains(call.raw, scope_markers[m])
                   => Len(Candidate(call.raw, scope_markers[m])) <= 50
    /\ call.res.path # "marker" =>
         \A k \in DOMAIN scope_markers :
           Contains(call.raw, scope_markers[k])
           => Len(Candidate(call.raw, scope_markers[k])) <= 50

\* 'Scope' gives a candidate of exactly 50 characters and is passed over;
\* the result is the text after 'About'.
C18_Witness ==
  /\ ScopeDone
  /\ Contains(call.raw, "Scope")
  /\ Len(Candidate(call.raw, "Scope")) = 50
  /\ call.res.path = "marker"
  /\ call.res.marker = "About"
  /\ Len(call.res.text) > 50

\* The database file has been built (or the attempt has ended).
PipelineDone == call.fn = "pipeline" /\ call.stage = "database"

Ranked(entry) == entry.rank.k = "int"

\* C19: create_database.main produces its output for every input list, the
\* journals sorted by rank ascending and those without a rank after all the
\* ranked ones.
C19_SortedByRankNullsLast ==
  PipelineDone =>
    /\ ~call.raised
    /\ Len(call.output) = Len(call.journals)
    /\ \A i \in DOMAIN call.entries : \E k \in DOMAIN call.output : call.output[k] = call.entries[i]
    /\ \A i, k \in DOMAIN call.output :
         i < k =>
           /\ Ranked(call.output[k]) => Ranked(call.output[i])
           /\ ( Ranked(call.output[i]) /\ Ranked(call.output[k]) )
                => call.output[i].rank.n <= call.output[k].rank.n

MetricNames ==
  {"sjr", "sjrQuartile", "hIndex", "totalDocs2024", "totalDocs3Years",
   "citationsPerDoc", "totalCitations3Years"}

NumericMetricNames == MetricNames \ {"sjrQuartile"}

\* C20: after clean_journal_data and create_database_entry every numeric
\* metric of every record is null or a number that is not negative; it is
\* never a string.
C20_MetricsNumberOrNull ==
  PipelineDone =>
    \A i \in DOMAIN call.entries : \A m \in NumericMetricNames :
      \/ call.entries[i].metrics[m].k = "null"
      \/ /\ call.entries[i].metrics[m].k \in {"int", "float"}
         /\ call.entries[i].metrics[m].n >= 0

\* ------------------------------------------------------ field parser claims
ParseDone(fn) == call.fn = fn /\ call.done

\* The trimmed, non-empty entries of a category field.
EntriesOf(field) == StripNonEmpty(Split(field, ";"))

TrailingQuartile(e) ==
  /\ Len(e) >= 4
  /\ SubSeq(e, Len(e) - 3, Len(e)) \in {<<"(", "Q", n, ")">> : n \in {"1", "2", "3", "4"}}

\* An entry with a name on one line: something precedes a trailing quartile
\* and the entry holds no line break.
RegularEntry(e) == NoNewline(e) /\ (TrailingQuartile(e) => Len(e) >= 5)

TrailingParse(e) ==
  IF TrailingQuartile(e)
  THEN [name |-> Strip(SubSeq(e, 1, Len(e) - 4)), quartile |-> JStr(<<"Q", e[Len(e) - 1]>>)]
  ELSE [name |-> e, quartile |-> JNull]

\* C21: both category parsers take the quartile only from a "(Q1)".."(Q4)"
\* that ends the entry and the trimmed rest as the name, parentheses and
\* inner "(Qn)" included; an entry without a trailing quartile is its own
\* name, with quartile null.
C21_TrailingQuartileOnly ==
  ( /\ ParseDone("parse_categories")
    /\ EntriesOf(call.arg) # <<>>
    /\ \A i \in DOMAIN EntriesOf(call.arg) : RegularEntry(EntriesOf(call.arg)[i]) )
  => LET expected == [i \in DOMAIN EntriesOf(call.arg) |-> TrailingParse(EntriesOf(call.arg)[i])]
     IN  /\ call.asm = expected
         /\ call.clean = JList(expected)

\* What the digits of a written number stand for.
IntPartValue(d) ==
  CASE d = <<>> -> 0 [] d = <<"0">> -> 0 [] d = <<"2">> -> 2 [] OTHER -> 12

FracPartHundredths(d) ==
  CASE d = <<>> -> 0 [] d = <<"0">> -> 0 [] d = <<"5">> -> 50 [] OTHER -> 25

FracPartAsDigits(d) ==
  CASE d = <<>> -> 0 [] d = <<"0">> -> 0 [] d = <<"5">> -> 5 [] OTHER -> 25

Tens(n) == IF n = 0 THEN 1 ELSE IF n = 1 THEN 10 ELSE 100

SignValue(parts) == IF parts.lead = <<"-">> THEN -1 ELSE 1

\* The spelling is a decimal number: digits on at least one side, a
\* separator only before fractional digits or after integer digits, and
\* nothing but white space around it.
IsDecimal(parts) ==
  /\ parts.trail # <<"a">>
  /\ parts.int \o parts.frac # <<>>

\* Its value in hundredths, '.' and ',' read alike.
DecimalHundredths(parts) ==
  SignValue(parts) *
    ( IF parts.sep = <<>>
      THEN (IntPartValue(parts.int) * Tens(Len(parts.frac)) + FracPartAsDigits(parts.frac)) * 100
      ELSE IntPartValue(parts.int) * 100 + FracPartHundredths(parts.frac) )

\* C23: safe_float reads a decimal string with '.' or with ',' as the
\* fractional separator and gives the same number for both spellings; it
\* gives null only for an empty string or one that is not a decimal number.
C23_CommaOrDot ==
  ( ParseDone("safe_float") /\ call.arg.k = "str" )
  => call.res = IF IsDecimal(call.parts) THEN JFloat(DecimalHundredths(call.parts))
                ELSE JNull

\* The spelling is an integer: digits only, white space around them allowed.
IsInteger(parts) == IsDecimal(parts) /\ parts.sep = <<>>

IntegerValue(parts) ==
  SignValue(parts) *
    (IntPartValue(parts.int) * Tens(Len(parts.frac)) + FracPartAsDigits(parts.frac))

\* C24: safe_int gives null exactly for an absent or empty input and for one
\* that is not an integer; zero, as the integer 0 or the string '0', gives 0.
C24_ZeroIsNotAbsent ==
  ParseDone("safe_int") =>
    CASE call.arg.k = "str" ->
           call.res = IF IsInteger(call.parts) THEN JInt(IntegerValue(call.parts)) ELSE JNull
      [] call.arg.k = "int" -> call.res = call.arg
      [] call.arg.k = "null" -> call.res = JNull
      [] OTHER -> TRUE

\* The cell is missing, empty or not an integer.
NoInteger(v) == v.k # "str" \/ ~IntSyntax(v.s)

\* The line has a cell for every column of the header.
CompleteLine(row) == \A c \in CsvColumns : row[c].k # "null"

\* C22: parse_csv returns a record for every row and never raises; an
\* integer column (Rank, H index, the document and citation counts) that is
\* empty or not an integer is null in the record.
C22_ParseCsvTotal ==
  ( ParseDone("parse_csv") /\ \A i \in DOMAIN call.arg : CompleteLine(call.arg[i]) ) =>
    /\ ~call.res.raised
    /\ Len(call.res.journals) = Len(call.arg)
    /\ \A i \in DOMAIN call.res.journals : \A c \in IntColumns \cup {"rank"} :
         NoInteger(call.arg[i][c]) => call.res.journals[i][c] = JNull

\* ------------------------------------------------- scope extractor, the cut
EndsDone == call.fn = "extract_scope_description" /\ call.done /\ call.doc.kind = "ends"

\* The text that follows the first occurrence of the marker, trimmed.
After(raw, marker) == TextStrip(Rest(raw, Index(raw, marker) + Len(marker)))

\* Every position of text at which some end marker occurs.
EndPositions(text) == UNION { Occurrences(text, end_markers[i]) : i \in DOMAIN end_markers }

\* The text before the earliest of them, all of it when there is none.
BeforeEarliestEnd(text) ==
  IF EndPositions(text) = {} THEN text
  ELSE SubSeq(text, 1, (CHOOSE p \in EndPositions(text) : \A q \in EndPositions(text) : p <= q) - 1)

ReverseSeq(s) == [i \in DOMAIN s |-> s[Len(s) + 1 - i]]

\* C25: the string returned on the marker path is the text between the
\* marker and the earliest occurrence of any end marker, white space
\* collapsed and trimmed; applying the end markers in another order cuts
\* at the same place.
C25_CutAtEarliestEnd ==
  ( EndsDone /\ call.res.path = "marker" ) =>
    /\ call.res.text =
         TextStrip(CollapseWhitespace(BeforeEarliestEnd(After(call.raw, call.res.marker))))
    /\ CutAtEndMarkers(After(call.raw, call.res.marker), ReverseSeq(end_markers))
         = BeforeEarliestEnd(After(call.raw, call.res.marker))

\* Two listed end markers follow the narrative, the one listed later first.
C25_Witness ==
  /\ EndsDone
  /\ call.res.path = "marker"
  /\ call.doc.first = "Quartiles"
  /\ call.doc.second = "Join the conversation"
  /\ call.res.text = Narrative51

\* C29: a string returned on the marker path contains no end marker, also
\* when the page separates the words of an end marker by a line break or by
\* several blanks.
C29_NoEndMarkerInResult ==
  ( EndsDone /\ call.res.path = "marker" ) =>
    \A i \in DOMAIN end_markers : ~Contains(call.res.text, end_markers[i])

\* ------------------------------------------ scope extractor, the fallback
SentencesDone ==
  call.fn = "extract_scope_description" /\ call.done /\ call.doc.kind = "sentences"

\* The sentences of the page that hold a descriptive token and no navigation
\* token, in page order.
RECURSIVE Surviving(_)
Surviving(ss) ==
  IF ss = <<>> THEN <<>>
  ELSE IF Head(ss).desc /\ ~Head(ss).skip THEN <<Head(ss).text>> \o Surviving(Tail(ss))
  ELSE Surviving(Tail(ss))

FirstFive(s) == SubSeq(s, 1, IF Len(s) < 5 THEN Len(s) ELSE 5)

\* C26: the fallback is used only when no marker gave more than 50
\* characters; its result is the first 5 sentences, in page order, that hold
\* a descriptive token and no navigation token, joined by single blanks, and
\* the empty string when there is no such sentence or the input is empty.
C26_SentenceFallback ==
  ( SentencesDone /\ call.res.path # "marker" ) =>
    /\ \A i \in DOMAIN scope_markers :
         Contains(call.raw, scope_markers[i]) => Len(Candidate(call.raw, scope_markers[i])) <= 50
    /\ call.res.text = JoinSpace(FirstFive(Surviving(call.doc.sentences)))

\* Six sentences survive and the sixth is left out.
C26_Witness ==
  /\ SentencesDone
  /\ call.res.path = "sentences"
  /\ Len(Surviving(call.doc.sentences)) = 6
  /\ call.res.text = JoinSpace(FirstFive(Surviving(call.doc.sentences)))
  /\ Surviving(call.doc.sentences)[6] # Surviving(call.doc.sentences)[5]

\* ------------------------------------------------------------ restore claim
Restored == call.fn = "restore" /\ call.stage = "target" /\ exit = "ok"

Tables == DOMAIN EmptyTables

\* The same rows in every table, none twice.
SameStore(a, b) ==
  \A t \in Tables : Range(a[t]) = Range(b[t]) /\ Len(a[t]) = Len(b[t])

\* C27: export_database on a store, then import_database on the file into a
\* store with any prior content, gives the store that was exported: the
\* same journals, scope rows, metrics rows and values (a metric 0 included),
\* ISSNs, dictionaries and links.
C27_RestoreRoundTrip == Restored => SameStore(db, call.original)

\* ------------------------------------------------- BMJ scraper, failed fetch
\* C28: when the page of a journal that is already stored cannot be fetched,
\* the insert_journal_to_db call that follows leaves the journal's stored
\* scope text, its sjr, sjr_quartile and h_index, and its open_access flag
\* as they were.
C28_FailedFetchKeepsStored ==
  [][ ( /\ RecordStep
        /\ Last(log').op = "bmj"
        /\ ~Last(log').src.reachable
        /\ JournalIds(db, Last(log').rec.source_id) # {} )
      => LET ids == JournalIds(db, Last(log').rec.source_id)
         IN  /\ \A i \in DOMAIN db.journals :
                  db.journals[i].id \in ids
                    => db'.journals[i].open_access = db.journals[i].open_access
             /\ \A i \in DOMAIN db.journal_scopes :
                  db.journal_scopes[i].journal_id \in ids
                    => db'.journal_scopes[i].scope_text = db.journal_scopes[i].scope_text
             /\ \A i \in DOMAIN db.journal_metrics : \A f \in BmjMetricFields :
                  db.journal_metrics[i].journal_id \in ids
                    => db'.journal_metrics[i][f] = db.journal_metrics[i][f] ]_vars

====
